---------------------------- MODULE Spec2Model ----------------------------
(***************************************************************************)
(* A model of the C-to-Python transpiler pipeline:                         *)
(*   Lexer (src/Lexer.cpp) -> Parser (src/Parser.cpp)                      *)
(*                         -> Transpiler (src/transpiler.cpp).             *)
(*                                                                         *)
(* Text is modelled character by character.  A character is a one-letter   *)
(* TLA+ string; a source text, a token value, a macro body or a generated  *)
(* Python text is a sequence of characters.  Str joins a sequence into one *)
(* string.                                                                 *)
(***************************************************************************)
EXTENDS Integers, Sequences, FiniteSets, TLC

VARIABLES
    source,     \* Lexer::source, the input text
    meta,       \* how the input was built (read only by the properties)
    pc,         \* pipeline stage: "lex", "parse", "gen", "done", "crashed";
                \* "escape", "unescape", "returned" for the escaping functions
    pos,        \* Lexer::pos (0-based)
    line,       \* Lexer::line
    col,        \* Lexer::col
    tokens,     \* the vector built by Lexer::tokenize
    macros,     \* Lexer::m_definedMacros
    current,    \* Parser::current (0-based)
    program,    \* children of the ProgramNode built by Parser::parseProgram
    errors,     \* number of "Error parsing statement" reports
    escaped,    \* exception that left Parser::parse ("none" if none)
    output,     \* python_code of main: the string returned by Transpiler::transpile
    thrown,     \* exception that left Transpiler::transpile ("none" if none)
    py_val,     \* transpileStringLiteralNode: the value of the literal
    ss_str,     \* transpileStringLiteralNode: the text written between the quotes
    res         \* unescapeLiteralContent: the string it returns

\* The variables of the escaping functions when they are run on their own.
literal == <<py_val, ss_str, res>>

vars == <<source, meta, pc, pos, line, col, tokens, macros, current,
          program, errors, escaped, output, thrown, literal>>

-----------------------------------------------------------------------------
(* Characters *)

NUL == "NUL"    \* '\0', which Lexer::peek returns at the end of the input
BS  == "BS"     \* '\b'

Letters ==
    {"a","b","c","d","e","f","g","h","i","j","k","l","m","n","o","p","q","r",
     "s","t","u","v","w","x","y","z","A","B","C","D","E","F","G","H","I","J",
     "K","L","M","N","O","P","Q","R","S","T","U","V","W","X","Y","Z"}

Digits == {"0","1","2","3","4","5","6","7","8","9"}

isalpha(c) == c \in Letters
isdigit(c) == c \in Digits
isalnum(c) == isalpha(c) \/ isdigit(c)
isspace(c) == c \in {" ", "\t", "\n", "\r", "\f"}

DigitVal(c) ==
    CASE c = "0" -> 0 [] c = "1" -> 1 [] c = "2" -> 2 [] c = "3" -> 3
      [] c = "4" -> 4 [] c = "5" -> 5 [] c = "6" -> 6 [] c = "7" -> 7
      [] c = "8" -> 8 [] c = "9" -> 9

RECURSIVE Str(_)
Str(s) == IF s = <<>> THEN "" ELSE Head(s) \o Str(Tail(s))

RECURSIVE Concat(_)
Concat(ss) == IF ss = <<>> THEN <<>> ELSE Head(ss) \o Concat(Tail(ss))

Last(s) == s[Len(s)]

-----------------------------------------------------------------------------
(* Lexer (src/Lexer.cpp).  The scanning position is the record             *)
(* lx = [pos, line, col, macros]; every scanning operator takes the text   *)
(* and the position and returns the new position (and a token).            *)

peek_char_at(src, lx, offset) ==
    IF lx.pos + offset < Len(src) THEN src[lx.pos + offset + 1] ELSE NUL

peek(src, lx) == peek_char_at(src, lx, 0)

peek_next(src, lx) == peek_char_at(src, lx, 1)

get(src, lx) ==
    IF lx.pos >= Len(src) THEN lx
    ELSE IF src[lx.pos + 1] = "\n"
         THEN [lx EXCEPT !.pos = @ + 1, !.line = @ + 1, !.col = 1]
         ELSE [lx EXCEPT !.pos = @ + 1, !.col = @ + 1]

Token(type, value, l, c) == [type |-> type, value |-> value, line |-> l, col |-> c]

RECURSIVE skipWhitespace(_, _)
skipWhitespace(src, lx) ==
    IF isspace(peek(src, lx)) THEN skipWhitespace(src, get(src, lx)) ELSE lx

RECURSIVE skipToLineEnd(_, _)
skipToLineEnd(src, lx) ==
    IF peek(src, lx) # "\n" /\ peek(src, lx) # NUL
    THEN skipToLineEnd(src, get(src, lx))
    ELSE lx

skipSingleLineComment(src, lx) ==
    LET l1 == skipToLineEnd(src, get(src, get(src, lx)))
    IN  IF peek(src, l1) = "\n" THEN get(src, l1) ELSE l1

RECURSIVE skipCommentBody(_, _)
skipCommentBody(src, lx) ==
    IF peek(src, lx) = NUL THEN lx
    ELSE IF peek(src, lx) = "*" /\ peek_next(src, lx) = "/"
         THEN get(src, get(src, lx))
         ELSE skipCommentBody(src, get(src, lx))

skipMultiLineComment(src, lx) == skipCommentBody(src, get(src, get(src, lx)))

\* The switch of lexStringLiteral: the character an escape stands for.
StringEscape(c) ==
    CASE c = "n" -> "\n" [] c = "t" -> "\t" [] c = "\"" -> "\""
      [] c = "\\" -> "\\" [] c = "r" -> "\r" [] c = "b" -> BS
      [] c = "f" -> "\f" [] OTHER -> c

\* The switch of lexCharacterLiteral.
CharEscape(c) ==
    CASE c = "n" -> "\n" [] c = "t" -> "\t" [] c = "'" -> "'"
      [] c = "\\" -> "\\" [] c = "r" -> "\r" [] c = "b" -> BS
      [] c = "f" -> "\f" [] OTHER -> c

RECURSIVE lexStringBody(_, _, _, _, _)
lexStringBody(src, lx, value, sl, sc) ==
    IF peek(src, lx) # "\"" /\ peek(src, lx) # NUL
    THEN IF peek(src, lx) = "\\"
         THEN LET l1 == get(src, lx)
                  escaped_char == peek(src, l1)
              IN  IF escaped_char = NUL
                  THEN [tok |-> Token("Error",
                                  <<"Unterminated escape sequence in string literal: \"">> \o value,
                                  sl, sc),
                        lx |-> l1]
                  ELSE lexStringBody(src, get(src, l1),
                                     Append(value, StringEscape(escaped_char)), sl, sc)
         ELSE lexStringBody(src, get(src, lx), Append(value, peek(src, lx)), sl, sc)
    ELSE IF peek(src, lx) = "\""
         THEN [tok |-> Token("StringLiteral", value, sl, sc), lx |-> get(src, lx)]
         ELSE [tok |-> Token("Error", <<"Unterminated string literal: \"">> \o value, sl, sc),
               lx |-> lx]

lexStringLiteral(src, lx) == lexStringBody(src, get(src, lx), <<>>, lx.line, lx.col)

RECURSIVE scanCharRest(_, _, _)
scanCharRest(src, lx, rest) ==
    IF peek(src, lx) # "'" /\ peek(src, lx) # NUL /\ peek(src, lx) # "\n"
    THEN scanCharRest(src, get(src, lx), Append(rest, peek(src, lx)))
    ELSE [rest |-> rest, lx |-> lx]

lexCharacterClose(src, lx, value, sl, sc) ==
    IF peek(src, lx) = "'"
    THEN [tok |-> Token("CharLiteral", value, sl, sc), lx |-> get(src, lx)]
    ELSE LET r == scanCharRest(src, lx, <<>>)
         IN  IF peek(src, r.lx) = "'"
             THEN [tok |-> Token("CharLiteral", value \o r.rest, sl, sc),
                   lx |-> get(src, r.lx)]
             ELSE [tok |-> Token("Error",
                             <<"Unterminated character literal: '">> \o value \o r.rest,
                             sl, sc),
                   lx |-> r.lx]

lexCharacterLiteral(src, lx) ==
    LET sl == lx.line
        sc == lx.col
        l1 == get(src, lx)
    IN  IF peek(src, l1) = "'"
        THEN [tok |-> Token("Error", <<"Empty character literal">>, sl, sc),
              lx |-> get(src, l1)]
        ELSE IF peek(src, l1) = NUL
        THEN [tok |-> Token("Error", <<"Unterminated character literal (EOF after ')">>, sl, sc),
              lx |-> l1]
        ELSE IF peek(src, l1) = "\\"
        THEN LET l2 == get(src, l1)
                 escaped_char == peek(src, l2)
             IN  IF escaped_char = NUL
                 THEN [tok |-> Token("Error",
                                 <<"Unterminated escape sequence in char literal">>, sl, sc),
                       lx |-> l2]
                 ELSE lexCharacterClose(src, get(src, l2), <<CharEscape(escaped_char)>>, sl, sc)
        ELSE lexCharacterClose(src, get(src, l1), <<peek(src, l1)>>, sl, sc)

RECURSIVE scanDigits(_, _, _)
scanDigits(src, lx, acc) ==
    IF isdigit(peek(src, lx))
    THEN scanDigits(src, get(src, lx), Append(acc, peek(src, lx)))
    ELSE [str |-> acc, lx |-> lx]

\* Part 3 of lexNumber: the exponent, then the final classification.
lexNumberExponent(src, lx, num_str, is_float, sl, sc) ==
    LET char_after_e == peek_next(src, lx)
        valid_exponent ==
            \/ isdigit(char_after_e)
            \/ /\ char_after_e \in {"+", "-"}
               /\ isdigit(peek_char_at(src, lx, 2))
        finish(str, fl, l) ==
            IF str = <<>> \/ (str = <<".">> /\ ~fl)
            THEN [tok |-> Token("Error", <<"Invalid number tokenization state">>, sl, sc),
                  lx |-> l]
            ELSE [tok |-> Token(IF fl THEN "FloatNumber" ELSE "IntegerNumber", str, sl, sc),
                  lx |-> l]
    IN  IF peek(src, lx) \in {"e", "E"} /\ valid_exponent
        THEN LET s1 == Append(num_str, peek(src, lx))
                 l1 == get(src, lx)
                 signed == peek(src, l1) \in {"+", "-"}
                 s2 == IF signed THEN Append(s1, peek(src, l1)) ELSE s1
                 l2 == IF signed THEN get(src, l1) ELSE l1
             IN  IF ~isdigit(peek(src, l2))
                 THEN [tok |-> Token("Error",
                                 <<"Malformed exponent in number (expected digits): ">> \o s2,
                                 sl, sc),
                       lx |-> l2]
                 ELSE LET d == scanDigits(src, l2, s2)
                      IN  finish(d.str, TRUE, d.lx)
        ELSE finish(num_str, is_float, lx)

lexNumber(src, lx) ==
    LET sl == lx.line
        sc == lx.col
    IN  IF peek(src, lx) = "."
        THEN LET d == scanDigits(src, get(src, lx), <<".">>)
             IN  lexNumberExponent(src, d.lx, d.str, TRUE, sl, sc)
        ELSE LET d == scanDigits(src, lx, <<>>)
             IN  IF peek(src, d.lx) = "."
                 THEN LET char_after_dot == peek_next(src, d.lx)
                          exponent_char == peek_char_at(src, d.lx, 2)
                          sign_char_or_digit ==
                              IF exponent_char \in {"+", "-"}
                              THEN peek_char_at(src, d.lx, 3)
                              ELSE exponent_char
                          dot_is_part_of_number ==
                              \/ isdigit(char_after_dot)
                              \/ /\ char_after_dot \in {"e", "E"}
                                 /\ isdigit(sign_char_or_digit)
                      IN  IF dot_is_part_of_number
                          THEN LET f == scanDigits(src, get(src, d.lx), Append(d.str, "."))
                               IN  lexNumberExponent(src, f.lx, f.str, TRUE, sl, sc)
                          ELSE [tok |-> Token("IntegerNumber", d.str, sl, sc), lx |-> d.lx]
                 ELSE lexNumberExponent(src, d.lx, d.str, FALSE, sl, sc)


RECURSIVE trimLeft(_)
trimLeft(s) == IF s # <<>> /\ isspace(Head(s)) THEN trimLeft(Tail(s)) ELSE s

RECURSIVE trimRight(_)
trimRight(s) ==
    IF s # <<>> /\ isspace(Last(s)) THEN trimRight(SubSeq(s, 1, Len(s) - 1)) ELSE s

trimWhitespace(s) == trimRight(trimLeft(s))

MacroDefinition(l) ==
    [name |-> <<>>, isFunctionLike |-> FALSE, parameters |-> <<>>,
     body |-> <<>>, line |-> l, valid |-> TRUE]

isIdentChar(c) == isalnum(c) \/ c = "_"

RECURSIVE scanIdent(_, _, _)
\* while (isalnum(peek()) || peek() == '_') acc += get();
scanIdent(src, lx, acc) ==
    IF isIdentChar(peek(src, lx))
    THEN scanIdent(src, get(src, lx), Append(acc, peek(src, lx)))
    ELSE [str |-> acc, lx |-> lx]

RECURSIVE scanAlnum(_, _, _)
\* while (isalnum(peek())) acc += get();
scanAlnum(src, lx, acc) ==
    IF isalnum(peek(src, lx))
    THEN scanAlnum(src, get(src, lx), Append(acc, peek(src, lx)))
    ELSE [str |-> acc, lx |-> lx]

\* The parameter loop of a function-like #define (Lexer.cpp 405-447).
RECURSIVE scanMacroParams(_, _, _, _)
scanMacroParams(src, lx, param_buffer, m) ==
    LET c == peek(src, lx)
    IN  IF c = NUL THEN [m |-> m, lx |-> lx]
        ELSE IF c = ")"
        THEN [m |-> IF param_buffer # <<>>
                    THEN [m EXCEPT !.parameters = Append(@, trimWhitespace(param_buffer))]
                    ELSE m,
              lx |-> lx]
        ELSE IF c = ","
        THEN scanMacroParams(src, skipWhitespace(src, get(src, lx)), <<>>,
                 IF param_buffer # <<>>
                 THEN [m EXCEPT !.parameters = Append(@, trimWhitespace(param_buffer))]
                 ELSE [m EXCEPT !.valid = FALSE])
        ELSE IF c = "\\" /\ peek_next(src, lx) = "\n"
        THEN scanMacroParams(src, get(src, get(src, lx)),
                             param_buffer \o <<"\\", "\n">>, m)
        ELSE IF c = "\n"
        THEN [m |-> [m EXCEPT !.valid = FALSE], lx |-> lx]
        ELSE scanMacroParams(src, get(src, lx), Append(param_buffer, c), m)

\* The body loop of #define (Lexer.cpp 463-486): the rest of the logical line.
RECURSIVE scanMacroBody(_, _, _)
scanMacroBody(src, lx, body_str) ==
    LET currentChar == peek(src, lx)
    IN  IF currentChar = NUL THEN [str |-> body_str, lx |-> lx]
        ELSE IF currentChar = "\\" /\ peek_next(src, lx) = "\n"
        THEN scanMacroBody(src, get(src, get(src, lx)), Append(body_str, " "))
        ELSE IF currentChar = "\n"
        THEN [str |-> body_str, lx |-> get(src, lx)]
        ELSE scanMacroBody(src, get(src, lx), Append(body_str, currentChar))

\* The loop that skips any other directive (Lexer.cpp 509-528).
RECURSIVE skipDirectiveLine(_, _)
skipDirectiveLine(src, lx) ==
    LET currentChar == peek(src, lx)
    IN  IF currentChar = NUL THEN lx
        ELSE IF currentChar = "\\" /\ peek_next(src, lx) = "\n"
        THEN skipDirectiveLine(src, get(src, get(src, lx)))
        ELSE IF currentChar = "\n" THEN get(src, lx)
        ELSE skipDirectiveLine(src, get(src, lx))

\* Whether a finished macro definition is stored (Lexer.cpp 495-503).
KeepMacro(m) == m.valid

\* The invalid-name branch of #define (Lexer.cpp 378-390): the macro is
\* stored as invalid and the rest of the line is dropped.
dropInvalidDefine(src, l1, currentMacro) ==
    [(IF peek(src, l1) = "\n" THEN get(src, l1) ELSE l1)
        EXCEPT !.macros = Append(@, [currentMacro EXCEPT !.valid = FALSE])]

\* The end of the parameter list (Lexer.cpp 449-458); ps is the macro and the
\* position after the parameter loop.
closeMacroParams(src, ps) ==
    IF peek(src, ps.lx) = ")"
    THEN [m |-> ps.m, lx |-> get(src, ps.lx)]
    ELSE [m |-> [ps.m EXCEPT !.valid = FALSE], lx |-> ps.lx]

\* 2. the parameter list of a function-like macro; l1 is the position after
\* the "(" and the whitespace that follows it.
scanMacroParameterList(src, l1, m) ==
    closeMacroParams(src,
        IF peek(src, l1) # ")"
        THEN scanMacroParams(src, l1, <<>>, [m EXCEPT !.isFunctionLike = TRUE])
        ELSE [m |-> [m EXCEPT !.isFunctionLike = TRUE], lx |-> l1])

\* The end of #define (Lexer.cpp 487-503); bd is the body text and the
\* position after the directive.
storeMacro(m, bd) ==
    IF KeepMacro([m EXCEPT !.body = trimWhitespace(bd.str),
                           !.valid = IF m.name = <<>> THEN FALSE ELSE @])
    THEN [bd.lx EXCEPT !.macros =
              Append(@, [m EXCEPT !.body = trimWhitespace(bd.str),
                                  !.valid = IF m.name = <<>> THEN FALSE ELSE @])]
    ELSE bd.lx

\* 3. the body; fl is the macro and the position after the name and the
\* parameter list.
scanMacroBodyAndStore(src, fl) ==
    storeMacro(fl.m, scanMacroBody(src, skipWhitespace(src, fl.lx), <<>>))

\* 1. the name has been read: nm is the name and the position after it.
defineNamed(src, nm, currentMacro) ==
    scanMacroBodyAndStore(src,
        IF peek(src, nm.lx) = "("
        THEN scanMacroParameterList(src, skipWhitespace(src, get(src, nm.lx)),
                                    [currentMacro EXCEPT !.name = nm.str])
        ELSE [m |-> [currentMacro EXCEPT !.name = nm.str], lx |-> nm.lx])

\* The define branch; lx is the position of the macro name.
defineAt(src, lx, currentMacro) ==
    IF ~isalpha(peek(src, lx)) /\ peek(src, lx) # "_"
    THEN dropInvalidDefine(src, skipToLineEnd(src, lx), currentMacro)
    ELSE defineNamed(src, scanIdent(src, lx, <<>>), currentMacro)

processDefine(src, lx0, directive_start_line) ==
    defineAt(src, skipWhitespace(src, lx0), MacroDefinition(directive_start_line))

\* The directive name has been read: dn is the name and the position after it.
directiveNamed(src, dn, directive_start_line) ==
    IF Str(dn.str) = "define"
    THEN processDefine(src, dn.lx, directive_start_line)
    ELSE skipDirectiveLine(src, dn.lx)

processPreprocessorDirective(src, lx) ==
    directiveNamed(src, scanAlnum(src, skipWhitespace(src, get(src, lx)), <<>>), lx.line)

ThreeCharOps == {"...", "<<=", ">>="}

TwoCharOps ==
    {"==", "!=", "<=", ">=", "+=", "-=", "*=", "/=", "%=", "&&", "||", "->",
     "++", "--", "<<", ">>", "&=", "|=", "^=", ".*", "::"}

OneCharOps ==
    {"+", "-", "*", "/", "%", "=", "!", "<", ">", "&", "|", "^", "~", ".", "?", ":"}

get2(src, lx) == get(src, get(src, lx))
get3(src, lx) == get(src, get(src, get(src, lx)))

tryLexOperator(src, lx) ==
    LET c1 == peek(src, lx)
        c2 == peek_next(src, lx)
        c3 == peek_char_at(src, lx, 2)
        sl == lx.line
        sc == lx.col
    IN  IF c2 # NUL /\ c3 # NUL /\ (c1 \o c2 \o c3) \in ThreeCharOps
        THEN [tok |-> Token("Operator", <<c1, c2, c3>>, sl, sc), lx |-> get3(src, lx)]
        ELSE IF c2 # NUL /\ (c1 \o c2) \in TwoCharOps
        THEN [tok |-> Token("Operator", <<c1, c2>>, sl, sc), lx |-> get2(src, lx)]
        ELSE IF c1 \in OneCharOps
        THEN [tok |-> Token("Operator", <<c1>>, sl, sc), lx |-> get(src, lx)]
        ELSE [tok |-> Token("Unknown", <<>>, sl, sc), lx |-> lx]

\* The keyword table of nextToken (Lexer.cpp 797-833).
keywords ==
    {"auto", "break", "case", "char", "const", "continue", "default", "do",
     "double", "else", "enum", "extern", "float", "for", "goto", "if", "int",
     "long", "register", "return", "short", "signed", "sizeof", "static",
     "struct", "switch", "typedef", "union", "unsigned", "void", "volatile",
     "while", "bool", "true", "false"}

Symbols == {";", ",", "(", ")", "{", "}", "[", "]"}

\* Step 1 of nextToken: whitespace, directives and comments.
RECURSIVE skipTrivia(_, _)
skipTrivia(src, lx0) ==
    LET lx == skipWhitespace(src, lx0)
        c == peek(src, lx)
        n == peek_next(src, lx)
    IN  IF c = "#" THEN skipTrivia(src, processPreprocessorDirective(src, lx))
        ELSE IF c = "/" /\ n = "/" THEN skipTrivia(src, skipSingleLineComment(src, lx))
        ELSE IF c = "/" /\ n = "*" THEN skipTrivia(src, skipMultiLineComment(src, lx))
        ELSE lx

\* The classification of a scanned word (Lexer.cpp 835-843).
wordType(value) ==
    IF Str(value) \in keywords
    THEN IF Str(value) \in {"true", "false"} THEN "BooleanLiteral" ELSE "Keyword"
    ELSE "Identifier"

\* id is the word scanned and the position after it.
wordToken(id, sl, sc) == [tok |-> Token(wordType(id.str), id.str, sl, sc), lx |-> id.lx]

\* Steps 7 to 9 of nextToken: op is the outcome of tryLexOperator.
operatorOrSymbol(src, lx, op) ==
    IF op.tok.type # "Unknown" THEN op
    ELSE IF peek(src, lx) \in Symbols
    THEN [tok |-> Token("Symbol", <<peek(src, lx)>>, lx.line, lx.col), lx |-> get(src, lx)]
    ELSE [tok |-> Token("Error", <<"Unrecognized character: ", peek(src, lx)>>,
                        lx.line, lx.col),
          lx |-> get(src, lx)]

\* Steps 2 to 9 of nextToken, at the position lx after whitespace, directives
\* and comments.
lexToken(src, lx) ==
    IF peek(src, lx) = NUL THEN [tok |-> Token("EndOfFile", <<>>, lx.line, lx.col), lx |-> lx]
    ELSE IF peek(src, lx) = "\"" THEN lexStringLiteral(src, lx)
    ELSE IF peek(src, lx) = "'" THEN lexCharacterLiteral(src, lx)
    ELSE IF isalpha(peek(src, lx)) \/ peek(src, lx) = "_"
    THEN wordToken(scanIdent(src, lx, <<>>), lx.line, lx.col)
    ELSE IF isdigit(peek(src, lx)) \/ (peek(src, lx) = "." /\ isdigit(peek_next(src, lx)))
    THEN lexNumber(src, lx)
    ELSE operatorOrSymbol(src, lx, tryLexOperator(src, lx))

nextToken(src, lx0) == lexToken(src, skipTrivia(src, lx0))

\* A tokenize whose loop also ends at the first Error token.
tokenizeStopsAtError(token) == token.type \notin {"EndOfFile", "Error"}

\* The condition of tokenize's do-while loop.
tokenizeContinues(token) == token.type # "EndOfFile"

\* Lexer::tokenize as one function (used for macro bodies by the generator).
RECURSIVE tokenizeFrom(_, _, _)

\* The end of one iteration of tokenize's loop; r is the outcome of nextToken.
tokenizeNext(src, toks, r) ==
    IF tokenizeContinues(r.tok)
    THEN tokenizeFrom(src, r.lx, Append(toks, r.tok))
    ELSE [tokens |-> Append(toks, r.tok), macros |-> r.lx.macros]

tokenizeFrom(src, lx, toks) == tokenizeNext(src, toks, nextToken(src, lx))

InitialLexer == [pos |-> 0, line |-> 1, col |-> 1, macros |-> <<>>]

tokenize(src) == tokenizeFrom(src, InitialLexer, <<>>)

-----------------------------------------------------------------------------
(* Parser (src/Parser.cpp).  A parsing operator takes the token vector and *)
(* Parser::current and returns [exc, cur, node]: the exception it threw    *)
(* ("none", "runtime_error" or "out_of_range"), the value of current when  *)
(* it returned or threw, and the node it built.                            *)

NoNode == [kind |-> "null"]

Ok(cur, node) == [exc |-> "none", cur |-> cur, node |-> node]
Throw(exc, cur) == [exc |-> exc, cur |-> cur, node |-> NoNode]

\* Sequencing of two parsing steps: an exception thrown by the first step r
\* leaves the function; otherwise the function goes on with K.
Then(r, K(_)) == IF r.exc # "none" THEN r ELSE K(r)

\* Parser::unescapeLiteralContent
RECURSIVE unescapeLiteralContent(_)
unescapeLiteralContent(s) ==
    IF s = <<>> THEN <<>>
    ELSE IF Head(s) = "\\" /\ Len(s) > 1
    THEN (CASE s[2] = "n" -> <<"\n">> [] s[2] = "t" -> <<"\t">>
            [] s[2] = "r" -> <<"\r">> [] s[2] = "\\" -> <<"\\">>
            [] s[2] = "'" -> <<"'">> [] s[2] = "\"" -> <<"\"">>
            [] s[2] = "0" -> <<NUL>> [] OTHER -> <<"\\", s[2]>>)
         \o unescapeLiteralContent(SubSeq(s, 3, Len(s)))
    ELSE <<Head(s)>> \o unescapeLiteralContent(Tail(s))

isAtEnd(toks, cur) == cur >= Len(toks) \/ toks[cur + 1].type = "EndOfFile"

check(toks, cur, type) == ~isAtEnd(toks, cur) /\ toks[cur + 1].type = type

checkValue(toks, cur, type, value) ==
    /\ ~isAtEnd(toks, cur)
    /\ toks[cur + 1].type = type
    /\ Str(toks[cur + 1].value) = value

\* Parser::advance: the new value of current.  Every call in the parser
\* follows a successful check, so previous() has a token to return.
advance(toks, cur) == IF ~isAtEnd(toks, cur) THEN cur + 1 ELSE cur

\* Parser::peek(offset) throws std::out_of_range when the index is outside the
\* vector and the vector does not end in an EndOfFile token.
peekThrows(toks, cur, offset) ==
    /\ cur + offset >= Len(toks)
    /\ ~(toks # <<>> /\ Last(toks).type = "EndOfFile")

peekToken(toks, cur, offset) ==
    IF cur + offset >= Len(toks) THEN Last(toks) ELSE toks[cur + offset + 1]

\* throw runtime_error("..." + peek().toString()): building the message calls
\* peek(), whose own exception replaces the runtime_error.
ThrowWithPeek(toks, cur) ==
    Throw(IF peekThrows(toks, cur, 0) THEN "out_of_range" ELSE "runtime_error", cur)

\* Parser::consume(type, value, message)
consumeValue(toks, cur, type, value) ==
    IF checkValue(toks, cur, type, value)
    THEN Ok(advance(toks, cur), NoNode)
    ELSE Throw("runtime_error", cur)

\* Parser::consume(type, message); node is the token consumed
consume(toks, cur, type) ==
    IF check(toks, cur, type)
    THEN Ok(advance(toks, cur), toks[cur + 1])
    ELSE Throw("runtime_error", cur)

TypeKeywords == {"int", "float", "char", "bool", "string", "void"}

checkTypeKeyword(toks, cur) ==
    ~isAtEnd(toks, cur) /\ toks[cur + 1].type = "Keyword"
        /\ Str(toks[cur + 1].value) \in TypeKeywords

\* Operator sets with the additive and the multiplicative operators exchanged.
BinaryOperatorsExchanged(level) ==
    CASE level = 1 -> {"||"}
      [] level = 2 -> {"&&"}
      [] level = 3 -> {"==", "!="}
      [] level = 4 -> {"<", ">", "<=", ">="}
      [] level = 5 -> {"*", "/", "%"}
      [] level = 6 -> {"+", "-"}

\* The operator sets of parseLogicalOr .. parseFactor, loosest first.
BinaryOperators(level) ==
    CASE level = 1 -> {"||"}
      [] level = 2 -> {"&&"}
      [] level = 3 -> {"==", "!="}
      [] level = 4 -> {"<", ">", "<=", ">="}
      [] level = 5 -> {"+", "-"}
      [] level = 6 -> {"*", "/", "%"}

UnaryOperators == {"!", "-", "&", "++", "--"}

\* check(Operator, op) for one of the operators of a set
checkOperator(toks, cur, types, ops) ==
    ~isAtEnd(toks, cur) /\ toks[cur + 1].type \in types
        /\ Str(toks[cur + 1].value) \in ops

\* A parseAssignmentExpression without the check of the left-hand expression.
isAnyExpression(node) == node.kind # "null"

\* The l-values parseAssignmentExpression accepts (Parser.cpp 500-501).
isAssignable(node) == node.kind \in {"Identifier", "ArraySubscript"}

RECURSIVE parseAssignmentExpression(_, _)
RECURSIVE parseBinaryExpression(_, _, _)
RECURSIVE parseBinaryLoop(_, _, _, _)
RECURSIVE parseUnary(_, _)
RECURSIVE parseArguments(_, _, _)
RECURSIVE parseCallLoop(_, _, _)

parseExpression(toks, cur) == parseAssignmentExpression(toks, cur)

parseAssignmentExpression(toks, cur) ==
    Then(parseBinaryExpression(toks, cur, 1), LAMBDA l :
    IF checkValue(toks, l.cur, "Operator", "=")
    THEN Then(parseAssignmentExpression(toks, advance(toks, l.cur)), LAMBDA r :
         IF isAssignable(l.node)
         THEN Ok(r.cur, [kind |-> "Assignment", lvalue |-> l.node, rvalue |-> r.node])
         ELSE Throw("runtime_error", r.cur))
    ELSE l)

\* parseOperand of level n is the next tighter level; of level 6, parseUnary.
parseOperand(toks, cur, level) ==
    IF level < 6 THEN parseBinaryExpression(toks, cur, level + 1)
    ELSE parseUnary(toks, cur)

parseBinaryExpression(toks, cur, level) ==
    Then(parseOperand(toks, cur, level), LAMBDA l :
    parseBinaryLoop(toks, l.cur, l.node, level))

parseBinaryLoop(toks, cur, left, level) ==
    IF checkOperator(toks, cur, {"Operator", "Symbol"}, BinaryOperators(level))
    THEN Then(parseOperand(toks, advance(toks, cur), level), LAMBDA r :
         parseBinaryLoop(toks, r.cur,
             [kind |-> "BinaryExpression", op |-> toks[cur + 1].value,
              left |-> left, right |-> r.node], level))
    ELSE Ok(cur, left)

parsePrimary(toks, cur) ==
    IF check(toks, cur, "BooleanLiteral")
    THEN IF Str(toks[cur + 1].value) \in {"true", "false"}
         THEN Ok(advance(toks, cur),
                 [kind |-> "Boolean", value |-> (Str(toks[cur + 1].value) = "true")])
         ELSE Throw("runtime_error", advance(toks, cur))
    ELSE IF checkValue(toks, cur, "Keyword", "true")
    THEN Ok(advance(toks, cur), [kind |-> "Boolean", value |-> TRUE])
    ELSE IF checkValue(toks, cur, "Keyword", "false")
    THEN Ok(advance(toks, cur), [kind |-> "Boolean", value |-> FALSE])
    ELSE IF check(toks, cur, "IntegerNumber") \/ check(toks, cur, "FloatNumber")
    THEN Ok(advance(toks, cur), [kind |-> "Number", value |-> toks[cur + 1].value])
    ELSE IF check(toks, cur, "StringLiteral")
    THEN Ok(advance(toks, cur),
            [kind |-> "StringLiteral",
             value |-> unescapeLiteralContent(toks[cur + 1].value)])
    ELSE IF check(toks, cur, "CharLiteral")
    THEN IF Len(unescapeLiteralContent(toks[cur + 1].value)) # 1
         THEN Throw("runtime_error", advance(toks, cur))
         ELSE Ok(advance(toks, cur),
                 [kind |-> "CharLiteral",
                  value |-> unescapeLiteralContent(toks[cur + 1].value)])
    ELSE IF check(toks, cur, "Identifier")
    THEN Ok(advance(toks, cur), [kind |-> "Identifier", name |-> toks[cur + 1].value])
    ELSE IF checkValue(toks, cur, "Symbol", "(")
    THEN Then(parseExpression(toks, advance(toks, cur)), LAMBDA e :
         Then(consumeValue(toks, e.cur, "Symbol", ")"), LAMBDA c :
         Ok(c.cur, e.node)))
    ELSE ThrowWithPeek(toks, cur)

parseCall(toks, cur) ==
    Then(parsePrimary(toks, cur), LAMBDA p : parseCallLoop(toks, p.cur, p.node))

parseUnary(toks, cur) ==
    IF checkOperator(toks, cur, {"Operator"}, UnaryOperators)
    THEN Then(parseUnary(toks, advance(toks, cur)), LAMBDA r :
         Ok(r.cur, [kind |-> "UnaryExpression", op |-> toks[cur + 1].value,
                    operand |-> r.node]))
    ELSE parseCall(toks, cur)

\* do { addChild(parseExpression()); } while (match(","));  node is the list
parseArguments(toks, cur, args) ==
    Then(parseExpression(toks, cur), LAMBDA a :
    IF checkValue(toks, a.cur, "Symbol", ",")
    THEN parseArguments(toks, advance(toks, a.cur), Append(args, a.node))
    ELSE Ok(a.cur, Append(args, a.node)))

parseCallLoop(toks, cur, expr) ==
    IF checkValue(toks, cur, "Symbol", "(")
    THEN IF expr.kind = "Identifier"
         THEN Then(IF ~checkValue(toks, advance(toks, cur), "Symbol", ")")
                   THEN parseArguments(toks, advance(toks, cur), <<>>)
                   ELSE Ok(advance(toks, cur), <<>>), LAMBDA as :
              Then(consumeValue(toks, as.cur, "Symbol", ")"), LAMBDA e :
              parseCallLoop(toks, e.cur,
                  [kind |-> "FunctionCall", name |-> expr.name, args |-> as.node])))
         ELSE Throw("runtime_error", advance(toks, cur))
    ELSE IF checkValue(toks, cur, "Symbol", "[")
    THEN Then(parseExpression(toks, advance(toks, cur)), LAMBDA i :
         Then(consumeValue(toks, i.cur, "Symbol", "]"), LAMBDA e :
         parseCallLoop(toks, e.cur,
             [kind |-> "ArraySubscript", array |-> expr, index |-> i.node])))
    ELSE IF checkOperator(toks, cur, {"Operator"}, {"++", "--"})
    THEN parseCallLoop(toks, advance(toks, cur),
             [kind |-> "UnaryExpression", op |-> toks[cur + 1].value, operand |-> expr])
    ELSE Ok(cur, expr)

RECURSIVE parseStatement(_, _)
RECURSIVE parseBlockLoop(_, _, _)
RECURSIVE parseMoreArguments(_, _, _)
RECURSIVE parseParameters(_, _, _)
RECURSIVE skipInitializer(_, _)

\* while (match(",")) addChild(parseExpression());  node is the list
parseMoreArguments(toks, cur, args) ==
    IF checkValue(toks, cur, "Symbol", ",")
    THEN Then(parseExpression(toks, advance(toks, cur)), LAMBDA a :
         parseMoreArguments(toks, a.cur, Append(args, a.node)))
    ELSE Ok(cur, args)

\* The common body of parsePrintfStatement and parseScanfStatement.
parseFormatted(toks, cur, kind) ==
    Then(consumeValue(toks, advance(toks, cur), "Symbol", "("), LAMBDA open :
    IF ~check(toks, open.cur, "StringLiteral") THEN ThrowWithPeek(toks, open.cur)
    ELSE Then(parsePrimary(toks, open.cur), LAMBDA f :
         Then(parseMoreArguments(toks, f.cur, <<>>), LAMBDA as :
         Then(consumeValue(toks, as.cur, "Symbol", ")"), LAMBDA close :
         Then(consumeValue(toks, close.cur, "Symbol", ";"), LAMBDA semi :
         Ok(semi.cur, [kind |-> kind, format |-> f.node, args |-> as.node]))))))

parsePrintfStatement(toks, cur) == parseFormatted(toks, cur, "Printf")

parseScanfStatement(toks, cur) == parseFormatted(toks, cur, "Scanf")

parseExpressionStatement(toks, cur) ==
    Then(parseExpression(toks, cur), LAMBDA e :
    Then(consumeValue(toks, e.cur, "Symbol", ";"), LAMBDA semi :
    Ok(semi.cur, [kind |-> "ExpressionStatement", expr |-> e.node])))

parseBlockLoop(toks, cur, stmts) ==
    IF ~checkValue(toks, cur, "Symbol", "}") /\ ~isAtEnd(toks, cur)
    THEN Then(parseStatement(toks, cur), LAMBDA st :
         parseBlockLoop(toks, st.cur, Append(stmts, st.node)))
    ELSE Then(consumeValue(toks, cur, "Symbol", "}"), LAMBDA close :
         Ok(close.cur, [kind |-> "Block", stmts |-> stmts]))

\* parseBlock has no handler of its own: an exception thrown by a statement
\* inside the block leaves the block.
parseBlock(toks, cur) == parseBlockLoop(toks, cur, <<>>)

parseIf(toks, cur) ==
    Then(consumeValue(toks, cur, "Symbol", "("), LAMBDA open :
    Then(parseExpression(toks, open.cur), LAMBDA cond :
    Then(consumeValue(toks, cond.cur, "Symbol", ")"), LAMBDA close :
    Then(parseStatement(toks, close.cur), LAMBDA thenB :
    IF checkValue(toks, thenB.cur, "Keyword", "else")
    THEN Then(parseStatement(toks, advance(toks, thenB.cur)), LAMBDA elseB :
         Ok(elseB.cur, [kind |-> "If", cond |-> cond.node, thenBranch |-> thenB.node,
                        elseBranch |-> elseB.node]))
    ELSE Ok(thenB.cur, [kind |-> "If", cond |-> cond.node, thenBranch |-> thenB.node,
                        elseBranch |-> NoNode])))))

parseWhile(toks, cur) ==
    Then(consumeValue(toks, cur, "Symbol", "("), LAMBDA open :
    Then(parseExpression(toks, open.cur), LAMBDA cond :
    Then(consumeValue(toks, cond.cur, "Symbol", ")"), LAMBDA close :
    Then(parseStatement(toks, close.cur), LAMBDA body :
    Ok(body.cur, [kind |-> "While", cond |-> cond.node, body |-> body.node])))))

\* The part of parseVariableDeclaration after the type and the identifier.
parseInitializer(toks, cur, actualType, actualIdentifier) ==
    Then(IF checkValue(toks, cur, "Operator", "=")
         THEN parseExpression(toks, advance(toks, cur))
         ELSE Ok(cur, NoNode), LAMBDA init :
    Then(consumeValue(toks, init.cur, "Symbol", ";"), LAMBDA semi :
    Ok(semi.cur, [kind |-> "VariableDeclaration", name |-> actualIdentifier,
                  type |-> actualType, init |-> init.node])))

parseVariableDeclaration(toks, cur, typeHint, identifierHint) ==
    IF typeHint = <<>> /\ ~checkTypeKeyword(toks, cur) THEN ThrowWithPeek(toks, cur)
    ELSE Then(IF typeHint = <<>>
              THEN Ok(advance(toks, cur), toks[cur + 1])
              ELSE Ok(cur, [value |-> typeHint]), LAMBDA type :
         Then(IF identifierHint = <<>>
              THEN consume(toks, type.cur, "Identifier")
              ELSE Ok(type.cur, [value |-> identifierHint]), LAMBDA id :
         parseInitializer(toks, id.cur, type.node.value, id.node.value)))

parseFor(toks, cur) ==
    Then(consumeValue(toks, cur, "Symbol", "("), LAMBDA open :
    Then(IF ~checkValue(toks, open.cur, "Symbol", ";")
         THEN IF checkValue(toks, open.cur, "Keyword", "int")
                 \/ checkValue(toks, open.cur, "Keyword", "float")
              THEN parseVariableDeclaration(toks, open.cur, <<>>, <<>>)
              ELSE parseExpressionStatement(toks, open.cur)
         ELSE consumeValue(toks, open.cur, "Symbol", ";"), LAMBDA init :
    Then(IF ~checkValue(toks, init.cur, "Symbol", ";")
         THEN parseExpression(toks, init.cur)
         ELSE Ok(init.cur, NoNode), LAMBDA cond :
    Then(consumeValue(toks, cond.cur, "Symbol", ";"), LAMBDA semi :
    Then(IF ~checkValue(toks, semi.cur, "Symbol", ")")
         THEN parseExpression(toks, semi.cur)
         ELSE Ok(semi.cur, NoNode), LAMBDA incr :
    Then(consumeValue(toks, incr.cur, "Symbol", ")"), LAMBDA close :
    Then(parseStatement(toks, close.cur), LAMBDA body :
    Ok(body.cur, [kind |-> "For", init |-> init.node, cond |-> cond.node,
                  incr |-> incr.node, body |-> body.node]))))))))

parseReturn(toks, cur) ==
    Then(IF ~checkValue(toks, cur, "Symbol", ";")
         THEN parseExpression(toks, cur)
         ELSE Ok(cur, NoNode), LAMBDA v :
    Then(consumeValue(toks, v.cur, "Symbol", ";"), LAMBDA semi :
    Ok(semi.cur, [kind |-> "Return", value |-> v.node])))

parseBreak(toks, cur) ==
    Then(consumeValue(toks, cur, "Symbol", ";"), LAMBDA semi :
    Ok(semi.cur, [kind |-> "Break"]))

parseContinue(toks, cur) ==
    Then(consumeValue(toks, cur, "Symbol", ";"), LAMBDA semi :
    Ok(semi.cur, [kind |-> "Continue"]))

\* while (!isAtEnd() && !check(";")) advance();  (Parser.cpp 376-379)
skipInitializer(toks, cur) ==
    IF ~isAtEnd(toks, cur) /\ ~checkValue(toks, cur, "Symbol", ";")
    THEN skipInitializer(toks, advance(toks, cur))
    ELSE cur

\* The do-while over the parameters; node is the list of Parameter records.
parseParameters(toks, cur, params) ==
    IF ~checkTypeKeyword(toks, cur) THEN ThrowWithPeek(toks, cur)
    ELSE Then(consume(toks, advance(toks, cur), "Identifier"), LAMBDA name :
         Then(IF checkValue(toks, name.cur, "Symbol", "[")
              THEN consumeValue(toks, advance(toks, name.cur), "Symbol", "]")
              ELSE Ok(name.cur, NoNode), LAMBDA arr :
         IF checkValue(toks, arr.cur, "Symbol", ",")
         THEN parseParameters(toks, advance(toks, arr.cur),
                  Append(params, [type |-> toks[cur + 1].value, name |-> name.node.value,
                                  isArray |-> arr.cur # name.cur]))
         ELSE Ok(arr.cur,
                 Append(params, [type |-> toks[cur + 1].value, name |-> name.node.value,
                                 isArray |-> arr.cur # name.cur]))))

parseFunctionDeclaration(toks, cur, returnType, identifier) ==
    Then(consumeValue(toks, cur, "Symbol", "("), LAMBDA open :
    Then(IF ~checkValue(toks, open.cur, "Symbol", ")")
         THEN parseParameters(toks, open.cur, <<>>)
         ELSE Ok(open.cur, <<>>), LAMBDA ps :
    Then(consumeValue(toks, ps.cur, "Symbol", ")"), LAMBDA close :
    Then(IF checkValue(toks, close.cur, "Symbol", "{")
         THEN parseBlock(toks, advance(toks, close.cur))
         ELSE consumeValue(toks, close.cur, "Symbol", ";"), LAMBDA body :
    Ok(body.cur, [kind |-> "FunctionDeclaration", name |-> identifier,
                  type |-> returnType, params |-> ps.node, body |-> body.node])))))

\* The array branch of parseDeclaration, after the "[".
parseArrayDeclaration(toks, cur, typeStr, identifierStr) ==
    Then(parseExpression(toks, cur), LAMBDA sizeExpr :
    Then(consumeValue(toks, sizeExpr.cur, "Symbol", "]"), LAMBDA close :
    Then(consumeValue(toks,
                      IF checkValue(toks, close.cur, "Operator", "=")
                      THEN skipInitializer(toks, advance(toks, close.cur))
                      ELSE close.cur,
                      "Symbol", ";"), LAMBDA semi :
    Ok(semi.cur, [kind |-> "ArrayDeclaration", name |-> identifierStr,
                  type |-> typeStr, size |-> sizeExpr.node]))))

parseDeclaration(toks, cur) ==
    Then(consume(toks, advance(toks, cur), "Identifier"), LAMBDA id :
    IF checkValue(toks, id.cur, "Symbol", "[")
    THEN parseArrayDeclaration(toks, advance(toks, id.cur), toks[cur + 1].value,
                               id.node.value)
    ELSE IF checkValue(toks, id.cur, "Symbol", "(")
    THEN parseFunctionDeclaration(toks, id.cur, toks[cur + 1].value, id.node.value)
    ELSE parseVariableDeclaration(toks, id.cur, toks[cur + 1].value, id.node.value))

\* check(Identifier, name) && peek(1) is the symbol "("
checkFormattedCall(toks, cur, name) ==
    /\ checkValue(toks, cur, "Identifier", name)
    /\ ~peekThrows(toks, cur, 1)
    /\ peekToken(toks, cur, 1).type = "Symbol"
    /\ Str(peekToken(toks, cur, 1).value) = "("

parseStatement(toks, cur) ==
    IF checkValue(toks, cur, "Keyword", "if") THEN parseIf(toks, advance(toks, cur))
    ELSE IF checkValue(toks, cur, "Keyword", "while")
    THEN parseWhile(toks, advance(toks, cur))
    ELSE IF checkValue(toks, cur, "Keyword", "for") THEN parseFor(toks, advance(toks, cur))
    ELSE IF checkValue(toks, cur, "Keyword", "return")
    THEN parseReturn(toks, advance(toks, cur))
    ELSE IF checkValue(toks, cur, "Keyword", "break")
    THEN parseBreak(toks, advance(toks, cur))
    ELSE IF checkValue(toks, cur, "Keyword", "continue")
    THEN parseContinue(toks, advance(toks, cur))
    ELSE IF checkValue(toks, cur, "Symbol", "{") THEN parseBlock(toks, advance(toks, cur))
    ELSE IF checkOperator(toks, cur, {"Identifier"}, {"printf", "scanf"})
            /\ peekThrows(toks, cur, 1)
    THEN Throw("out_of_range", cur)
    ELSE IF checkFormattedCall(toks, cur, "printf") THEN parsePrintfStatement(toks, cur)
    ELSE IF checkFormattedCall(toks, cur, "scanf") THEN parseScanfStatement(toks, cur)
    ELSE IF checkTypeKeyword(toks, cur) THEN parseDeclaration(toks, cur)
    ELSE parseExpressionStatement(toks, cur)

SyncKeywords ==
    {"if", "while", "for", "return", "break", "continue", "print", "int", "float",
     "char", "bool", "string", "void"}

\* The tests of one iteration of synchronize's loop that make it return.
syncBoundary(toks, cur) ==
    \/ cur > 0 /\ toks[cur].type = "Symbol" /\ Str(toks[cur].value) = ";"
    \/ toks[cur + 1].type = "Keyword" /\ Str(toks[cur + 1].value) \in SyncKeywords
    \/ /\ toks[cur + 1].type = "Identifier"
       /\ Str(toks[cur + 1].value) \in {"printf", "scanf"}
       /\ cur + 1 < Len(toks)
       /\ toks[cur + 2].type = "Symbol" /\ Str(toks[cur + 2].value) = "("
    \/ toks[cur + 1].type = "Symbol" /\ Str(toks[cur + 1].value) \in {"{", "}"}

RECURSIVE synchronizeLoop(_, _)
synchronizeLoop(toks, cur) ==
    IF isAtEnd(toks, cur) \/ syncBoundary(toks, cur) THEN cur
    ELSE synchronizeLoop(toks, advance(toks, cur))

\* A synchronize that does not advance before its loop.
synchronizeWithoutAdvance(toks, cur) == cur

\* The advance() that synchronize makes before its loop.
synchronizeFirst(toks, cur) == advance(toks, cur)

synchronize(toks, cur) ==
    IF isAtEnd(toks, cur) THEN cur
    ELSE synchronizeLoop(toks, synchronizeFirst(toks, cur))

\* A statement loop without its handler.
catchesNothing(exc) == FALSE

\* catch (const runtime_error &e) of parseProgram's loop
caughtByStatementLoop(exc) == exc = "runtime_error"

\* What the loop of parseProgram does with the outcome st of parseStatement:
\* the statement parsed (or NoNode), whether a syntax error was reported, the
\* exception that leaves the loop and the new current.
afterStatement(toks, st) ==
    IF st.exc = "none"
    THEN [exc |-> "none", cur |-> st.cur, node |-> st.node, error |-> FALSE]
    ELSE IF caughtByStatementLoop(st.exc)
    THEN [exc |-> "none", cur |-> synchronize(toks, st.cur), node |-> NoNode,
          error |-> TRUE]
    ELSE [exc |-> st.exc, cur |-> st.cur, node |-> NoNode, error |-> FALSE]

\* One iteration of parseProgram's loop, entered with ~isAtEnd.
parseProgramIteration(toks, cur) == afterStatement(toks, parseStatement(toks, cur))

\* ProgramNode::addChild ignores a null statement.
addChild(children, node) == IF node = NoNode THEN children ELSE Append(children, node)

\* The state of parseProgram's loop after the iteration it.
afterIteration(p, it) ==
    [exc |-> it.exc, cur |-> it.cur,
     children |-> addChild(p.children, it.node),
     errors |-> p.errors + (IF it.error THEN 1 ELSE 0)]

RECURSIVE parseProgramLoop(_, _)
parseProgramLoop(toks, p) ==
    IF p.exc # "none" \/ isAtEnd(toks, p.cur) THEN p
    ELSE parseProgramLoop(toks, afterIteration(p, parseProgramIteration(toks, p.cur)))

parseProgram(toks) ==
    parseProgramLoop(toks, [exc |-> "none", cur |-> 0, children |-> <<>>, errors |-> 0])

\* What Parser::parse makes of the outcome of parseProgram: a runtime_error
\* yields an empty Program; any other exception leaves parse.
afterProgram(p) ==
    IF p.exc = "runtime_error"
    THEN [exc |-> "none", cur |-> p.cur, children |-> <<>>, errors |-> p.errors + 1]
    ELSE p

parse(toks) == afterProgram(parseProgram(toks))

-----------------------------------------------------------------------------
(* Transpiler (src/transpiler.cpp).  Generated text is a sequence of       *)
(* characters, like the source text.                                       *)

\* std::all_of(..., isspace), and remove_if(isspace) leaving nothing
IsBlank(text) == \A i \in 1..Len(text) : isspace(text[i])

\* string(n, ' ')
Spaces(n) == [i \in 1..n |-> " "]

\* The lines std::getline reads from a text; cur is the line being read.
RECURSIVE getlines(_, _)
getlines(text, cur) ==
    IF text = <<>> THEN (IF cur = <<>> THEN <<>> ELSE <<cur>>)
    ELSE IF Head(text) = "\n" THEN <<cur>> \o getlines(Tail(text), <<>>)
    ELSE getlines(Tail(text), Append(cur, Head(text)))

\* if (!line.empty() && line.back() == '\r') line.pop_back();
stripCarriageReturn(l) ==
    IF l # <<>> /\ Last(l) = "\r" THEN SubSeq(l, 1, Len(l) - 1) ELSE l

\* The while (getline) loop of indent; first is first_line_outputted.
RECURSIVE indentLines(_, _, _)
indentLines(lines, indentStr, first) ==
    IF lines = <<>> THEN <<>>
    ELSE (IF first THEN <<"\n">> ELSE <<>>)
         \o (IF stripCarriageReturn(Head(lines)) # <<>>
             THEN indentStr \o stripCarriageReturn(Head(lines))
             ELSE <<>>)
         \o indentLines(Tail(lines), indentStr, TRUE)

\* The end of indent: result is what the loop wrote.
indentResult(code_block, result, indentStr, add_pass_if_empty) ==
    IF \E i \in 1..Len(getlines(code_block, <<>>)) :
           stripCarriageReturn(getlines(code_block, <<>>)[i]) # <<>>
    THEN IF result = <<>> \/ Last(result) # "\n" THEN Append(result, "\n") ELSE result
    ELSE IF add_pass_if_empty /\ ~IsBlank(code_block) /\ result = <<>>
    THEN indentStr \o <<"p", "a", "s", "s", "\n">>
    ELSE result

\* Transpiler::indent
indent(code_block, level_delta, add_pass_if_empty) ==
    IF level_delta <= 0
    THEN IF add_pass_if_empty /\ IsBlank(code_block) THEN <<"p", "a", "s", "s", "\n">> ELSE code_block
    ELSE IF IsBlank(code_block) /\ add_pass_if_empty
    THEN Spaces(level_delta * 4) \o <<"p", "a", "s", "s", "\n">>
    ELSE indentResult(code_block,
                      indentLines(getlines(code_block, <<>>), Spaces(level_delta * 4), FALSE),
                      Spaces(level_delta * 4), add_pass_if_empty)

\* The two-argument calls: add_pass_if_empty defaults to false.
indent2(code_block, level_delta) == indent(code_block, level_delta, FALSE)

\* std::to_string of an int
DigitChars == <<"0", "1", "2", "3", "4", "5", "6", "7", "8", "9">>

RECURSIVE digitsOf(_)
digitsOf(n) ==
    IF n < 10 THEN <<DigitChars[n + 1]>>
    ELSE Append(digitsOf(n \div 10), DigitChars[(n % 10) + 1])

to_string(n) == IF n < 0 THEN <<"-">> \o digitsOf(-n) ELSE digitsOf(n)

INT_MAX == 2147483647

\* std::stoi on a number token: the leading digits are converted; acc is the
\* value so far, n the number of digits read.  The result is [ok, val]; ok is
\* false where stoi throws (no digit, or a value above INT_MAX).
RECURSIVE stoiFrom(_, _, _)
stoiFrom(s, acc, n) ==
    IF s = <<>> \/ ~isdigit(Head(s)) THEN [ok |-> n > 0, val |-> acc]
    ELSE IF acc > (INT_MAX - DigitVal(Head(s))) \div 10 THEN [ok |-> FALSE, val |-> 0]
    ELSE stoiFrom(Tail(s), acc * 10 + DigitVal(Head(s)), n + 1)

stoi(s) == stoiFrom(s, 0, 0)

RECURSIVE transpileExpression(_)

\* An escaping that writes a backslash as it is.
RECURSIVE escapeKeepingBackslash(_)
escapeKeepingBackslash(s) ==
    IF s = <<>> THEN <<>>
    ELSE (CASE Head(s) = "\"" -> <<"\\", "\"">>
            [] Head(s) = "\n" -> <<"\\", "n">>
            [] Head(s) = "\r" -> <<"\\", "r">>
            [] Head(s) = "\t" -> <<"\\", "t">>
            [] OTHER -> <<Head(s)>>)
         \o escapeKeepingBackslash(Tail(s))

\* The escaping loop of transpileStringLiteralNode
RECURSIVE escapeStringContent(_)
escapeStringContent(s) ==
    IF s = <<>> THEN <<>>
    ELSE (CASE Head(s) = "\"" -> <<"\\", "\"">>
            [] Head(s) = "\\" -> <<"\\", "\\">>
            [] Head(s) = "\n" -> <<"\\", "n">>
            [] Head(s) = "\r" -> <<"\\", "r">>
            [] Head(s) = "\t" -> <<"\\", "t">>
            [] OTHER -> <<Head(s)>>)
         \o escapeStringContent(Tail(s))

transpileIdentifierNode(expr) == expr.name

transpileNumberNode(expr) == expr.value

transpileStringLiteralNode(expr) == <<"\"">> \o escapeStringContent(expr.value) \o <<"\"">>

transpileCharLiteralNode(expr) ==
    IF Len(expr.value) # 1 THEN <<"'", "#", "E", "R", "R", "_", "C", "H", "A", "R", "'">>
    ELSE <<"'">>
         \o (CASE expr.value[1] = "'" -> <<"\\", "'">>
               [] expr.value[1] = "\\" -> <<"\\", "\\">>
               [] expr.value[1] = "\n" -> <<"\\", "n">>
               [] expr.value[1] = "\r" -> <<"\\", "r">>
               [] expr.value[1] = "\t" -> <<"\\", "t">>
               [] OTHER -> expr.value)
         \o <<"'">>

transpileBooleanNode(expr) == IF expr.value THEN <<"T", "r", "u", "e">> ELSE <<"F", "a", "l", "s", "e">>

\* The argument loop of transpileFunctionCallNode, from argument i on.
RECURSIVE transpileArguments(_, _)
transpileArguments(args, i) ==
    IF i > Len(args) THEN <<>>
    ELSE transpileExpression(args[i])
         \o (IF i < Len(args) THEN <<",", " ">> ELSE <<>>)
         \o transpileArguments(args, i + 1)

transpileFunctionCallNode(expr) ==
    expr.name \o <<"(">> \o transpileArguments(expr.args, 1) \o <<")">>

transpileBinaryExpression(expr) ==
    <<"(">> \o transpileExpression(expr.left) \o <<" ">>
        \o (IF Str(expr.op) = "&&" THEN <<"a", "n", "d">>
            ELSE IF Str(expr.op) = "||" THEN <<"o", "r">>
            ELSE expr.op)
        \o <<" ">> \o transpileExpression(expr.right) \o <<")">>

transpileUnaryExpression(expr) ==
    IF Str(expr.op) = "&" THEN transpileExpression(expr.operand)
    ELSE (IF Str(expr.op) = "!" THEN <<"n", "o", "t", " ">> ELSE expr.op)
         \o transpileExpression(expr.operand)

transpileAssignmentNode(assign) ==
    transpileExpression(assign.lvalue) \o <<" ", "=", " ">> \o transpileExpression(assign.rvalue)

transpileArraySubscriptNode(expr) ==
    transpileExpression(expr.array) \o <<"[">> \o transpileExpression(expr.index) \o <<"]">>

\* ASTNode::type_name of a node
type_name(node) ==
    CASE node.kind = "Block" -> <<"B", "l", "o", "c", "k", "N", "o", "d", "e">>
      [] node.kind = "ExpressionStatement" -> <<"E", "x", "p", "r", "e", "s", "s", "i", "o", "n", "S", "t", "a", "t", "e", "m", "e", "n", "t", "N", "o", "d", "e">>
      [] node.kind = "Printf" -> <<"P", "r", "i", "n", "t", "f", "N", "o", "d", "e">>
      [] node.kind = "Scanf" -> <<"S", "c", "a", "n", "f", "N", "o", "d", "e">>
      [] node.kind = "If" -> <<"I", "f", "N", "o", "d", "e">>
      [] node.kind = "While" -> <<"W", "h", "i", "l", "e", "N", "o", "d", "e">>
      [] node.kind = "For" -> <<"F", "o", "r", "N", "o", "d", "e">>
      [] node.kind = "Return" -> <<"R", "e", "t", "u", "r", "n", "N", "o", "d", "e">>
      [] node.kind = "Break" -> <<"B", "r", "e", "a", "k", "N", "o", "d", "e">>
      [] node.kind = "Continue" -> <<"C", "o", "n", "t", "i", "n", "u", "e", "N", "o", "d", "e">>
      [] node.kind = "VariableDeclaration" -> <<"V", "a", "r", "i", "a", "b", "l", "e", "D", "e", "c", "l", "a", "r", "a", "t", "i", "o", "n", "N", "o", "d", "e">>
      [] node.kind = "FunctionDeclaration" -> <<"F", "u", "n", "c", "t", "i", "o", "n", "D", "e", "c", "l", "a", "r", "a", "t", "i", "o", "n", "N", "o", "d", "e">>
      [] node.kind = "ArrayDeclaration" -> <<"A", "r", "r", "a", "y", "D", "e", "c", "l", "a", "r", "a", "t", "i", "o", "n", "N", "o", "d", "e">>
      [] node.kind = "BinaryExpression" -> <<"B", "i", "n", "a", "r", "y", "E", "x", "p", "r", "e", "s", "s", "i", "o", "n", "N", "o", "d", "e">>
      [] node.kind = "UnaryExpression" -> <<"U", "n", "a", "r", "y", "E", "x", "p", "r", "e", "s", "s", "i", "o", "n", "N", "o", "d", "e">>
      [] node.kind = "Identifier" -> <<"I", "d", "e", "n", "t", "i", "f", "i", "e", "r", "N", "o", "d", "e">>
      [] node.kind = "Assignment" -> <<"A", "s", "s", "i", "g", "n", "m", "e", "n", "t", "N", "o", "d", "e">>
      [] node.kind = "FunctionCall" -> <<"F", "u", "n", "c", "t", "i", "o", "n", "C", "a", "l", "l", "N", "o", "d", "e">>
      [] node.kind = "StringLiteral" -> <<"S", "t", "r", "i", "n", "g", "L", "i", "t", "e", "r", "a", "l", "N", "o", "d", "e">>
      [] node.kind = "CharLiteral" -> <<"C", "h", "a", "r", "L", "i", "t", "e", "r", "a", "l", "N", "o", "d", "e">>
      [] node.kind = "Number" -> <<"N", "u", "m", "b", "e", "r", "N", "o", "d", "e">>
      [] node.kind = "Boolean" -> <<"B", "o", "o", "l", "e", "a", "n", "N", "o", "d", "e">>
      [] node.kind = "ArraySubscript" -> <<"A", "r", "r", "a", "y", "S", "u", "b", "s", "c", "r", "i", "p", "t", "N", "o", "d", "e">>
      [] OTHER -> <<>>

transpileExpression(expr) ==
    CASE expr.kind = "null" -> <<>>
      [] expr.kind = "BinaryExpression" -> transpileBinaryExpression(expr)
      [] expr.kind = "UnaryExpression" -> transpileUnaryExpression(expr)
      [] expr.kind = "ArraySubscript" -> transpileArraySubscriptNode(expr)
      [] expr.kind = "Identifier" -> transpileIdentifierNode(expr)
      [] expr.kind = "Number" -> transpileNumberNode(expr)
      [] expr.kind = "StringLiteral" -> transpileStringLiteralNode(expr)
      [] expr.kind = "CharLiteral" -> transpileCharLiteralNode(expr)
      [] expr.kind = "Boolean" -> transpileBooleanNode(expr)
      [] expr.kind = "FunctionCall" -> transpileFunctionCallNode(expr)
      [] expr.kind = "Assignment" -> transpileAssignmentNode(expr)
      [] OTHER -> <<"#", "U", "N", "S", "U", "P", "P", "O", "R", "T", "E", "D", "_", "E", "X", "P", "R", "_">> \o type_name(expr)

\* The loop of transpilePrintfStatement over formatStr from index i (1-based);
\* argIdx arguments have been used.
RECURSIVE printfContent(_, _, _, _)
printfContent(formatStr, pyArgs, i, argIdx) ==
    IF i > Len(formatStr) THEN <<>>
    ELSE IF formatStr[i] = "%"
    THEN IF i + 1 <= Len(formatStr) /\ formatStr[i + 1] = "%"
         THEN <<"%">> \o printfContent(formatStr, pyArgs, i + 2, argIdx)
         ELSE IF i + 1 <= Len(formatStr) /\ argIdx < Len(pyArgs)
         THEN <<"{">> \o pyArgs[argIdx + 1] \o <<"}">>
              \o printfContent(formatStr, pyArgs, i + 2, argIdx + 1)
         ELSE <<"%">> \o printfContent(formatStr, pyArgs, i + 1, argIdx)
    ELSE (CASE formatStr[i] = "{" -> <<"{", "{">>
            [] formatStr[i] = "}" -> <<"}", "}">>
            [] formatStr[i] = "\n" -> <<"\\", "n">>
            [] formatStr[i] = "\t" -> <<"\\", "t">>
            [] formatStr[i] = "\"" -> <<"\\", "\"">>
            [] OTHER -> <<formatStr[i]>>)
         \o printfContent(formatStr, pyArgs, i + 1, argIdx)

\* pyArgs of transpilePrintfStatement
transpileEach(exprs) == [i \in 1..Len(exprs) |-> transpileExpression(exprs[i])]

transpilePrintfStatement(stmt) ==
    IF stmt.format.kind # "StringLiteral"
    THEN <<"#", " ", "E", "r", "r", "o", "r", ":", " ", "p", "r", "i", "n", "t", "f", " ", "f", "o", "r", "m", "a", "t", " ", "s", "t", "r", "i", "n", "g", " ", "i", "s", " ", "n", "o", "t", " ", "a", " ", "s", "t", "r", "i", "n", "g", " ", "l", "i", "t", "e", "r", "a", "l", "\n">>
    ELSE <<"p", "r", "i", "n", "t", "(", "f", "\"">>
         \o printfContent(stmt.format.value, transpileEach(stmt.args), 1, 0)
         \o <<"\"", ")", "\n">>

\* py_target_vars_str of transpileScanfStatement
scanfTarget(argExpr) ==
    IF argExpr.kind = "UnaryExpression" /\ Str(argExpr.op) = "&"
    THEN transpileExpression(argExpr.operand)
    ELSE transpileExpression(argExpr)

scanfTargets(args) == [i \in 1..Len(args) |-> scanfTarget(args[i])]

\* formatStr.find_first_of(" \t\n") != npos
hasBlank(formatStr) == \E i \in 1..Len(formatStr) : formatStr[i] \in {" ", "\t", "\n"}

\* formatStr.find('%') != formatStr.rfind('%')
hasTwoPercents(formatStr) ==
    \E i, j \in 1..Len(formatStr) : i # j /\ formatStr[i] = "%" /\ formatStr[j] = "%"

multiple_inputs_on_line(formatStr, targets) ==
    \/ hasBlank(formatStr) /\ Len(targets) > 1
    \/ Len(targets) > 1 /\ ~hasBlank(formatStr) /\ hasTwoPercents(formatStr)

\* temp_prompt's copy of the format string
RECURSIVE promptText(_)
promptText(formatStr) ==
    IF formatStr = <<>> THEN <<>>
    ELSE (IF Head(formatStr) = "\n" THEN <<"\\", "n">> ELSE <<Head(formatStr)>>)
         \o promptText(Tail(formatStr))

\* spec_count: the "%" that are followed by a character other than "%"
spec_count(formatStr) ==
    Cardinality({p \in 1..Len(formatStr) :
        formatStr[p] = "%" /\ p + 1 <= Len(formatStr) /\ formatStr[p + 1] # "%"})

\* The words that fs >> spec_token extracts; cur is the word being read.
RECURSIVE words(_, _)
words(text, cur) ==
    IF text = <<>> THEN (IF cur = <<>> THEN <<>> ELSE <<cur>>)
    ELSE IF isspace(Head(text))
    THEN (IF cur = <<>> THEN <<>> ELSE <<cur>>) \o words(Tail(text), <<>>)
    ELSE words(Tail(text), Append(cur, Head(text)))

\* spec_token.find('%'): the 1-based index of the first "%", 0 when absent
findPercent(tok) ==
    IF \E i \in 1..Len(tok) : tok[i] = "%"
    THEN CHOOSE i \in 1..Len(tok) : tok[i] = "%" /\ \A j \in 1..(i - 1) : tok[j] # "%"
    ELSE 0

\* A right-hand side that asks for every value with a prompt of its own.
scanfRhsSingle(multiple, spec_token, target, var_idx) ==
    <<"i", "n", "p", "u", "t", "(", "\"", "E", "n", "t", "e", "r", " ", "v", "a", "l", "u", "e", " ", "f", "o", "r", " ">> \o spec_token \o <<" ", "(">> \o target \o <<")", ":", " ", "\\", "n", "\"", ")">>

\* The right-hand side of one scanf assignment
scanfRhs(multiple, spec_token, target, var_idx) ==
    IF multiple THEN <<"_", "t", "e", "m", "p", "_", "i", "n", "p", "u", "t", "s", "[">> \o to_string(var_idx) \o <<"]">>
    ELSE <<"i", "n", "p", "u", "t", "(", "\"", "E", "n", "t", "e", "r", " ", "v", "a", "l", "u", "e", " ", "f", "o", "r", " ">> \o spec_token \o <<" ", "(">> \o target \o <<")", ":", " ", "\\", "n", "\"", ")">>

scanfAssignment(spec_token, target, rhs) ==
    CASE Str(spec_token) = "%d" -> target \o <<" ", "=", " ", "i", "n", "t", "(">> \o rhs \o <<")", "\n">>
      [] Str(spec_token) = "%f" -> target \o <<" ", "=", " ", "f", "l", "o", "a", "t", "(">> \o rhs \o <<")", "\n">>
      [] Str(spec_token) = "%s" -> target \o <<" ", "=", " ">> \o rhs \o <<"\n">>
      [] Str(spec_token) = "%c" ->
             target \o <<" ", "=", " ", "(">> \o rhs \o <<")", "[", "0", "]", " ", "i", "f", " ">> \o rhs \o <<" ", "e", "l", "s", "e", " ", "'", "'", "\n">>
      [] OTHER -> target \o <<" ", "=", " ">> \o rhs \o <<" ", "#", " ", "U", "n", "h", "a", "n", "d", "l", "e", "d", " ", "s", "c", "a", "n", "f", " ", "s", "p", "e", "c", "i", "f", "i", "e", "r", " ">>
                  \o spec_token \o <<"\n">>

\* The while (fs >> spec_token && ...) loop; ws are the words not yet read.
\* The result is [code, var_idx].
RECURSIVE scanfLoop(_, _, _, _, _, _)
scanfLoop(ws, targets, count, multiple, var_idx, code) ==
    IF ws = <<>> \/ ~(var_idx < Len(targets)) \/ ~(var_idx < count)
    THEN [code |-> code, var_idx |-> var_idx]
    ELSE IF findPercent(Head(ws)) = 0
    THEN scanfLoop(Tail(ws), targets, count, multiple, var_idx, code)
    ELSE scanfLoop(Tail(ws), targets, count, multiple, var_idx + 1,
             code \o scanfAssignment(
                 SubSeq(Head(ws), findPercent(Head(ws)), Len(Head(ws))),
                 targets[var_idx + 1],
                 scanfRhs(multiple,
                          SubSeq(Head(ws), findPercent(Head(ws)), Len(Head(ws))),
                          targets[var_idx + 1], var_idx)))

\* The warnings after the loop; r is the outcome of the loop.
scanfWarnings(r, targets, count, multiple) ==
    r.code
    \o (IF r.var_idx < Len(targets)
        THEN <<"#", " ", "W", "a", "r", "n", "i", "n", "g", ":", " ", "N", "o", "t", " ", "a", "l", "l", " ", "s", "c", "a", "n", "f", " ", "t", "a", "r", "g", "e", "t", " ", "v", "a", "r", "i", "a", "b", "l", "e", "s", " ", "w", "e", "r", "e", " ", "a", "s", "s", "i", "g", "n", "e", "d", " ", "d", "u", "e", " ", "t", "o", " ", "t", "o", "o", " ", "f", "e", "w", " ", "f", "o", "r", "m", "a", "t", " ", "s", "p", "e", "c", "i", "f", "i", "e", "r", "s", " ", "p", "r", "o", "c", "e", "s", "s", "e", "d", ".", "\n">>
        ELSE <<>>)
    \o (IF r.var_idx < count /\ multiple
        THEN <<"#", " ", "W", "a", "r", "n", "i", "n", "g", ":", " ", "M", "o", "r", "e", " ", "f", "o", "r", "m", "a", "t", " ", "s", "p", "e", "c", "i", "f", "i", "e", "r", "s", " ", "t", "h", "a", "n", " ", "p", "r", "o", "v", "i", "d", "e", "d", " ", "i", "n", "p", "u", "t", " ", "s", "l", "o", "t", "s", " ", "p", "r", "o", "c", "e", "s", "s", "e", "d", " ", "f", "o", "r", " ", "_", "t", "e", "m", "p", "_", "i", "n", "p", "u", "t", "s", ".", "\n">>
        ELSE <<>>)

scanfCode(formatStr, targets, multiple) ==
    scanfWarnings(
        scanfLoop(words(formatStr, <<>>), targets, spec_count(formatStr), multiple, 0,
                  IF multiple /\ targets # <<>>
                  THEN <<"_", "t", "e", "m", "p", "_", "i", "n", "p", "u", "t", "s", " ", "=", " ", "i", "n", "p", "u", "t", "(", "\"", "E", "n", "t", "e", "r", " ", "v", "a", "l", "u", "e", "s", " ", "f", "o", "r", " ", "f", "o", "r", "m", "a", "t", " ", "'">>
                       \o promptText(formatStr) \o <<"'", "\\", "n", "\"", ")", ".", "s", "p", "l", "i", "t", "(", ")", "\n">>
                  ELSE <<>>),
        targets, spec_count(formatStr), multiple)

transpileScanfStatement(stmt) ==
    IF stmt.format.kind # "StringLiteral"
    THEN <<"#", " ", "E", "r", "r", "o", "r", ":", " ", "s", "c", "a", "n", "f", " ", "f", "o", "r", "m", "a", "t", " ", "s", "t", "r", "i", "n", "g", " ", "i", "s", " ", "n", "o", "t", " ", "a", " ", "s", "t", "r", "i", "n", "g", " ", "l", "i", "t", "e", "r", "a", "l", "\n">>
    ELSE scanfCode(stmt.format.value, scanfTargets(stmt.args),
                   multiple_inputs_on_line(stmt.format.value, scanfTargets(stmt.args)))

RECURSIVE transpileStatement(_, _)

transpileReturnStatement(stmt) ==
    IF stmt.value = NoNode THEN <<"r", "e", "t", "u", "r", "n", "\n">>
    ELSE <<"r", "e", "t", "u", "r", "n", " ">> \o transpileExpression(stmt.value) \o <<"\n">>

\* dynamic_pointer_cast<VariableDeclarationNode>: an ArrayDeclarationNode is a
\* VariableDeclarationNode built without an initializer.
isVariableDeclaration(node) == node.kind \in {"VariableDeclaration", "ArrayDeclaration"}

getInitializer(decl) == IF decl.kind = "VariableDeclaration" THEN decl.init ELSE NoNode

transpileVariableDeclaration(decl) ==
    IF getInitializer(decl) # NoNode
    THEN decl.name \o <<" ", "=", " ">> \o transpileExpression(getInitializer(decl)) \o <<"\n">>
    ELSE <<>>

transpileExpressionStatement(stmt) == transpileExpression(stmt.expr) \o <<"\n">>

transpileBreakStatement(stmt) == <<"b", "r", "e", "a", "k", "\n">>

transpileContinueStatement(stmt) == <<"c", "o", "n", "t", "i", "n", "u", "e", "\n">>

transpileArrayDeclaration(decl) ==
    decl.name \o <<" ", "=", " ", "[", "N", "o", "n", "e", "]", " ", "*", " ", "(">> \o transpileExpression(decl.size) \o <<")", "\n">>

\* The loop of transpileBlock over the statements from index i on
RECURSIVE transpileStatements(_, _, _)
transpileStatements(stmts, i, level) ==
    IF i > Len(stmts) THEN <<>>
    ELSE transpileStatement(stmts[i], level) \o transpileStatements(stmts, i + 1, level)

\* The end of transpileBlock: collected is the code of the statements.
blockOrPass(collected, content_indent_level) ==
    IF IsBlank(collected) THEN indent2(<<"p", "a", "s", "s", "\n">>, content_indent_level) ELSE collected

transpileBlock(block, content_indent_level) ==
    blockOrPass(transpileStatements(block.stmts, 1, content_indent_level),
                content_indent_level)

\* The while (current_else_branch) loop of transpileIfStatement
RECURSIVE transpileElseChain(_, _)
transpileElseChain(current_else_branch, base_indent_level) ==
    IF current_else_branch = NoNode THEN <<>>
    ELSE IF current_else_branch.kind = "If"
    THEN indent2(<<"e", "l", "i", "f", " ">> \o transpileExpression(current_else_branch.cond) \o <<":", "\n">>,
                 base_indent_level)
         \o transpileStatement(current_else_branch.thenBranch, base_indent_level + 1)
         \o transpileElseChain(current_else_branch.elseBranch, base_indent_level)
    ELSE indent2(<<"e", "l", "s", "e", ":", "\n">>, base_indent_level)
         \o transpileStatement(current_else_branch, base_indent_level + 1)

\* An if statement rendered without the loop over the else-if chain: the
\* else branch, whatever it is, under an else header.
transpileIfNested(stmt, base_indent_level) ==
    indent2(<<"i", "f", " ">> \o transpileExpression(stmt.cond) \o <<":", "\n">>, base_indent_level)
    \o transpileStatement(stmt.thenBranch, base_indent_level + 1)
    \o (IF stmt.elseBranch = NoNode THEN <<>>
        ELSE indent2(<<"e", "l", "s", "e", ":", "\n">>, base_indent_level)
             \o transpileStatement(stmt.elseBranch, base_indent_level + 1))

transpileIfStatement(stmt, base_indent_level) ==
    indent2(<<"i", "f", " ">> \o transpileExpression(stmt.cond) \o <<":", "\n">>, base_indent_level)
    \o transpileStatement(stmt.thenBranch, base_indent_level + 1)
    \o transpileElseChain(stmt.elseBranch, base_indent_level)

transpileWhileStatement(stmt, base_indent_level) ==
    indent2(<<"w", "h", "i", "l", "e", " ">> \o transpileExpression(stmt.cond) \o <<":", "\n">>, base_indent_level)
    \o transpileStatement(stmt.body, base_indent_level + 1)

\* The header loop of transpileFunctionDeclaration over the parameters
RECURSIVE parameterNames(_, _)
parameterNames(params, i) ==
    IF i > Len(params) THEN <<>>
    ELSE (IF i > 1 THEN <<",", " ">> ELSE <<>>) \o params[i].name \o parameterNames(params, i + 1)

transpileFunctionDeclaration(funcDecl) ==
    indent2(<<"d", "e", "f", " ">> \o funcDecl.name \o <<"(">> \o parameterNames(funcDecl.params, 1)
            \o <<")", ":", "\n">>, 0)
    \o (IF funcDecl.body # NoNode /\ funcDecl.body.stmts # <<>>
        THEN transpileStatement(funcDecl.body, 1)
        ELSE indent2(<<"p", "a", "s", "s", "\n">>, 1))

\* --- transpileForStatement ---

\* loopVar after "Handle Initializer"; empty when none is identified
forLoopVar(initializer) ==
    IF isVariableDeclaration(initializer) THEN initializer.name
    ELSE IF initializer.kind = "ExpressionStatement"
            /\ initializer.expr.kind = "Assignment"
            /\ initializer.expr.lvalue.kind = "Identifier"
    THEN initializer.expr.lvalue.name
    ELSE <<>>

\* startValue after "Handle Initializer"
forStartValue(initializer) ==
    IF isVariableDeclaration(initializer)
    THEN IF getInitializer(initializer) # NoNode
         THEN transpileExpression(getInitializer(initializer))
         ELSE <<"0">>
    ELSE IF initializer.kind = "ExpressionStatement"
            /\ initializer.expr.kind = "Assignment"
            /\ initializer.expr.lvalue.kind = "Identifier"
    THEN transpileExpression(initializer.expr.rvalue)
    ELSE <<"0">>

init_code_for_while_fallback(initializer) ==
    IF isVariableDeclaration(initializer) THEN transpileVariableDeclaration(initializer)
    ELSE IF initializer.kind = "ExpressionStatement"
    THEN transpileExpressionStatement(initializer)
    ELSE <<>>

\* The condition names the loop variable on the left of "<" or "<=".
isRangeCondition(cond, loopVar) ==
    /\ cond # NoNode
    /\ loopVar # <<>>
    /\ cond.kind = "BinaryExpression"
    /\ cond.left.kind = "Identifier"
    /\ cond.left.name = loopVar
    /\ Str(cond.op) \in {"<", "<="}

forStopValue(cond, loopVar) ==
    IF isRangeCondition(cond, loopVar) THEN transpileExpression(cond.right) ELSE <<>>

inclusive_for_range(cond, loopVar) ==
    isRangeCondition(cond, loopVar) /\ Str(cond.op) = "<="

condition_py_expr_for_while(cond) ==
    IF cond # NoNode THEN transpileExpression(cond) ELSE <<"T", "r", "u", "e">>

\* The increment has the shape loopVar = loopVar <op> <number>.
isStepAssignment(incr, loopVar) ==
    /\ incr.kind = "Assignment"
    /\ incr.lvalue.kind = "Identifier"
    /\ incr.lvalue.name = loopVar
    /\ incr.rvalue.kind = "BinaryExpression"
    /\ incr.rvalue.left.kind = "Identifier"
    /\ incr.rvalue.left.name = loopVar
    /\ incr.rvalue.right.kind = "Number"

\* The increment has the shape ++loopVar, loopVar++, --loopVar or loopVar--.
isUnaryStep(incr, loopVar) ==
    /\ incr.kind = "UnaryExpression"
    /\ incr.operand.kind = "Identifier"
    /\ incr.operand.name = loopVar

\* "Handle Increment": [simple |-> simple_increment_for_range,
\*                      step |-> step_for_range]
forStep(incr, loopVar) ==
    IF incr = NoNode \/ loopVar = <<>> THEN [simple |-> FALSE, step |-> 1]
    ELSE IF isStepAssignment(incr, loopVar)
    THEN IF ~stoi(incr.rvalue.right.value).ok THEN [simple |-> FALSE, step |-> 1]
         ELSE IF Str(incr.rvalue.op) = "+"
         THEN [simple |-> TRUE, step |-> stoi(incr.rvalue.right.value).val]
         ELSE IF Str(incr.rvalue.op) = "-"
         THEN [simple |-> TRUE, step |-> -stoi(incr.rvalue.right.value).val]
         ELSE [simple |-> FALSE, step |-> 1]
    ELSE IF isUnaryStep(incr, loopVar)
    THEN IF Str(incr.op) = "++" THEN [simple |-> TRUE, step |-> 1]
         ELSE IF Str(incr.op) = "--" THEN [simple |-> TRUE, step |-> -1]
         ELSE [simple |-> FALSE, step |-> 1]
    ELSE [simple |-> FALSE, step |-> 1]

use_range_optimization(loopVar, startValue, stopValue, st) ==
    /\ loopVar # <<>>
    /\ startValue # <<>>
    /\ stopValue # <<>>
    /\ st.simple
    /\ st.step # 0

\* A rendering that leaves the bound of an inclusive condition as it is.
unadjusted_stopValue(stopValue, inclusive, step) == stopValue

effective_stopValue_for_range(stopValue, inclusive, step) ==
    IF inclusive /\ step > 0 THEN <<"(">> \o stopValue \o <<" ", "+", " ", "1", ")">>
    ELSE IF inclusive /\ step < 0 THEN <<"(">> \o stopValue \o <<" ", "-", " ", "1", ")">>
    ELSE stopValue

step_str_for_range(step) == IF step # 1 THEN <<",", " ">> \o to_string(step) ELSE <<>>

\* The body of either loop
forBody(body, level) ==
    IF body # NoNode THEN transpileStatement(body, level) ELSE indent2(<<"p", "a", "s", "s", "\n">>, level)

forAsRange(forNode, loopVar, startValue, stopValue, inclusive, step, level) ==
    indent2(loopVar \o <<" ", "=", " ">> \o startValue \o <<"\n">>, level)
    \o indent2(<<"f", "o", "r", " ">> \o loopVar \o <<" ", "i", "n", " ", "r", "a", "n", "g", "e", "(">> \o startValue \o <<",", " ">>
               \o effective_stopValue_for_range(stopValue, inclusive, step)
               \o step_str_for_range(step) \o <<")", ":", "\n">>, level)
    \o forBody(forNode.body, level + 1)

forAsWhile(forNode, loopVar, startValue, init_code, level) ==
    (IF init_code # <<>> THEN indent2(init_code, level)
     ELSE IF loopVar # <<>> /\ isVariableDeclaration(forNode.init)
     THEN indent2(loopVar \o <<" ", "=", " ">> \o startValue \o <<"\n">>, level)
     ELSE <<>>)
    \o indent2(<<"w", "h", "i", "l", "e", " ">> \o condition_py_expr_for_while(forNode.cond) \o <<":", "\n">>, level)
    \o forBody(forNode.body, level + 1)
    \o (IF transpileExpression(forNode.incr) # <<>>
        THEN indent2(transpileExpression(forNode.incr) \o <<"\n">>, level + 1)
        ELSE <<>>)

\* The decision between the two renderings
forRendering(forNode, loopVar, startValue, stopValue, st, level) ==
    IF use_range_optimization(loopVar, startValue, stopValue, st)
    THEN forAsRange(forNode, loopVar, startValue, stopValue,
                    inclusive_for_range(forNode.cond, loopVar), st.step, level)
    ELSE forAsWhile(forNode, loopVar, startValue,
                    init_code_for_while_fallback(forNode.init), level)

transpileForStatement(forNode, current_indent_level) ==
    IF forNode.init.kind \notin {"null", "VariableDeclaration", "ArrayDeclaration",
                                 "ExpressionStatement"}
    THEN indent2(<<"#", " ", "U", "n", "s", "u", "p", "p", "o", "r", "t", "e", "d", " ", "f", "o", "r", "-", "l", "o", "o", "p", " ", "i", "n", "i", "t", "i", "a", "l", "i", "z", "e", "r", " ", "t", "y", "p", "e", ":", " ">> \o type_name(forNode.init)
                 \o <<"\n">>, current_indent_level)
    ELSE forRendering(forNode, forLoopVar(forNode.init), forStartValue(forNode.init),
                      forStopValue(forNode.cond, forLoopVar(forNode.init)),
                      forStep(forNode.incr, forLoopVar(forNode.init)),
                      current_indent_level)

\* --- transpileStatement ---

\* SECTION 2 of transpileStatement: the leaf statements, before indentation
statement_code_to_indent(stmt) ==
    CASE stmt.kind = "ArrayDeclaration" -> transpileArrayDeclaration(stmt)
      [] stmt.kind = "VariableDeclaration" -> transpileVariableDeclaration(stmt)
      [] stmt.kind = "ExpressionStatement" -> transpileExpressionStatement(stmt)
      [] stmt.kind = "Printf" -> transpilePrintfStatement(stmt)
      [] stmt.kind = "Scanf" -> transpileScanfStatement(stmt)
      [] stmt.kind = "Return" -> transpileReturnStatement(stmt)
      [] stmt.kind = "Break" -> transpileBreakStatement(stmt)
      [] stmt.kind = "Continue" -> transpileContinueStatement(stmt)

\* The end of transpileStatement
indentLeaf(code, base_indent_level) ==
    IF code = <<>> THEN <<>> ELSE indent2(code, base_indent_level)

transpileStatement(stmt, base_indent_level) ==
    CASE stmt.kind = "null" -> <<>>
      [] stmt.kind = "FunctionDeclaration" -> transpileFunctionDeclaration(stmt)
      [] stmt.kind = "If" -> transpileIfStatement(stmt, base_indent_level)
      [] stmt.kind = "For" -> transpileForStatement(stmt, base_indent_level)
      [] stmt.kind = "While" -> transpileWhileStatement(stmt, base_indent_level)
      [] stmt.kind = "Block" -> transpileBlock(stmt, base_indent_level)
      [] stmt.kind \in {"ArrayDeclaration", "VariableDeclaration", "ExpressionStatement",
                        "Printf", "Scanf", "Return", "Break", "Continue"} ->
             indentLeaf(statement_code_to_indent(stmt), base_indent_level)
      [] OTHER -> indent2(<<"#", " ", "U", "N", "H", "A", "N", "D", "L", "E", "D", "_", "S", "T", "A", "T", "E", "M", "E", "N", "T", "_", "T", "Y", "P", "E", ":", " ">> \o type_name(stmt) \o <<"\n">>,
                          base_indent_level)

\* --- macros ---

\* A generation step returns [exc, text]: the exception that left it ("none"
\* when it returned) and the text it returned.
Returned(text) == [exc |-> "none", text |-> text]

\* bodyTokens: the tokens of the macro body, without the EndOfFile token
bodyTokensOf(toks) ==
    IF toks # <<>> /\ Last(toks).type = "EndOfFile"
    THEN SubSeq(toks, 1, Len(toks) - 1)
    ELSE toks

\* The end of transpileMacroBodyToPythonExpression: r is the outcome of
\* tempParser.parseExpression().  Only std::runtime_error is caught.
macroBodyExpression(r) ==
    IF r.exc = "runtime_error" THEN Returned(<<"#", "E", "R", "R", "O", "R", "_", "P", "A", "R", "S", "I", "N", "G", "_", "M", "A", "C", "R", "O", "_", "B", "O", "D", "Y">>)
    ELSE IF r.exc # "none" THEN [exc |-> r.exc, text |-> <<>>]
    ELSE IF r.node = NoNode THEN Returned(<<"#", "E", "R", "R", "O", "R", "_", "N", "U", "L", "L", "_", "E", "X", "P", "R", "_", "M", "A", "C", "R", "O", "_", "B", "O", "D", "Y">>)
    ELSE Returned(transpileExpression(r.node))

\* transpileMacroBodyToPythonExpression after the tokenization of the body
macroBodyFromTokens(c_macro_body_source, bodyTokens) ==
    IF bodyTokens = <<>> /\ IsBlank(c_macro_body_source) THEN Returned(<<"N", "o", "n", "e">>)
    ELSE IF bodyTokens = <<>> THEN Returned(<<"#", "E", "R", "R", "O", "R", "_", "E", "M", "P", "T", "Y", "_", "T", "O", "K", "E", "N", "S", "_", "F", "O", "R", "_", "M", "A", "C", "R", "O", "_", "B", "O", "D", "Y">>)
    ELSE macroBodyExpression(parseExpression(bodyTokens, 0))

transpileMacroBodyToPythonExpression(c_macro_body_source, macro_params) ==
    IF c_macro_body_source = <<>> THEN Returned(<<"N", "o", "n", "e">>)
    ELSE macroBodyFromTokens(c_macro_body_source,
                             bodyTokensOf(tokenize(c_macro_body_source).tokens))

\* pyParamsStr
RECURSIVE pyParamsStr(_, _)
pyParamsStr(parameters, i) ==
    IF i > Len(parameters) THEN <<>>
    ELSE parameters[i] \o (IF i < Len(parameters) THEN <<",", " ">> ELSE <<>>)
         \o pyParamsStr(parameters, i + 1)

\* The text of one macro; b is the outcome of the translation of its body.
macroCode(macroDef, b) ==
    IF b.exc # "none" THEN b
    ELSE IF macroDef.isFunctionLike
    THEN Returned(<<"d", "e", "f", " ">> \o macroDef.name \o <<"(">> \o pyParamsStr(macroDef.parameters, 1)
                  \o <<")", ":", "\n">> \o indent2(<<"r", "e", "t", "u", "r", "n", " ">> \o b.text \o <<"\n">>, 1))
    ELSE Returned(macroDef.name \o <<" ", "=", " ">> \o b.text \o <<"\n">>)

\* transpileProgram's loop body without the test of the valid flag.
transpileMacroUnchecked(macroDef) ==
    macroCode(macroDef,
              transpileMacroBodyToPythonExpression(macroDef.body, macroDef.parameters))

transpileMacro(macroDef) ==
    IF ~macroDef.valid THEN Returned(<<>>)
    ELSE macroCode(macroDef,
                   transpileMacroBodyToPythonExpression(macroDef.body, macroDef.parameters))

\* Part 1 of transpileProgram: the loop over the macros from index i on
RECURSIVE transpileMacros(_, _, _)

afterMacro(macroList, i, code, r) ==
    IF r.exc # "none" THEN r ELSE transpileMacros(macroList, i + 1, code \o r.text)

transpileMacros(macroList, i, code) ==
    IF i > Len(macroList) THEN Returned(code)
    ELSE afterMacro(macroList, i, code, transpileMacro(macroList[i]))

\* Part 2 of transpileProgram; m is the outcome of part 1.
programCode(statements, m) ==
    IF m.exc # "none" THEN m
    ELSE Returned((IF m.text # <<>> THEN Append(m.text, "\n") ELSE <<>>)
                  \o transpileStatements(statements, 1, 0))

transpileProgram(statements, macroList) ==
    programCode(statements, transpileMacros(macroList, 1, <<>>))

\* Transpiler::transpile; parse never hands it a null program.
transpile(statements, macroList) == transpileProgram(statements, macroList)

-----------------------------------------------------------------------------
(* Inputs.  Families of source texts are explored (lexical fragments,       *)
(* programs of statement templates, for loops, if chains, printf and scanf *)
(* calls, #define lines, numbers, string literals, expressions,            *)
(* declarations, counting loops, nested constructs); meta records how a    *)
(* text was built and is read only by the properties.                      *)

MaxFrags == 3
MaxStmts == 2

\* All sequences over 1..n of length lo..hi.
Seqs(n, lo, hi) == UNION {[1..k -> 1..n] : k \in lo..hi}

Pick(catalogue, is) == [i \in 1..Len(is) |-> catalogue[is[i]]]

\* Family "lex": concatenations of lexical fragments.
LexFragments ==
    << <<"x">>, <<" ">>, <<"1">>, <<"=">>, <<";">>, <<"@">>, <<"\"">>, <<"'", "a", "b", "'">>, <<"/", "*">>, <<"\n">>,
       <<"#", "d", "e", "f", "i", "n", "e", " ", "A">>, <<" ", "a", " ", "+">> >>

LexSource(is) == Concat(Pick(LexFragments, is))

\* Family "program": a sequence of statements, possibly nested in an
\* enclosing construct, possibly followed by one more top-level statement.
\* valid says whether the statement belongs to the grammar of the language;
\* kind is the node a valid statement is parsed into.
StatementTemplates ==
    << [text |-> <<"y", " ", "=", " ", "1", ";">>, valid |-> TRUE, kind |-> "ExpressionStatement"],
       [text |-> <<"i", "n", "t", " ", "x", " ", "=", " ", "2", ";">>, valid |-> TRUE, kind |-> "VariableDeclaration"],
       [text |-> <<"s", "t", "r", "i", "n", "g", " ", "s", " ", "=", " ", "\"", "h", "i", "\"", ";">>, valid |-> TRUE, kind |-> "VariableDeclaration"],
       [text |-> <<"i", "f", " ", "(", "x", ")", " ", "y", " ", "=", " ", "2", ";", " ", "e", "l", "s", "e", " ", "{", " ", "y", " ", "=", " ", "3", ";", " ", "}">>, valid |-> TRUE, kind |-> "If"],
       [text |-> <<"r", "e", "t", "u", "r", "n", ";">>, valid |-> TRUE, kind |-> "Return"],
       [text |-> <<"i", "n", "t", " ", "5", " ", "=", " ", "x", ";">>, valid |-> FALSE, kind |-> "null"],
       [text |-> <<"x", " ", "=", " ", "{", "1", "}", ";">>, valid |-> FALSE, kind |-> "null"],
       [text |-> <<"i", "f", " ", "(", "x", " ", "{", " ", "y", " ", "=", " ", "1", ";", " ", "}">>, valid |-> FALSE, kind |-> "null"] >>

Wrappers ==
    [top      |-> [open |-> <<>>, close |-> <<>>, kind |-> "null"],
     block    |-> [open |-> <<"{", " ">>, close |-> <<"}", " ">>, kind |-> "Block"],
     function |-> [open |-> <<"v", "o", "i", "d", " ", "f", "(", ")", " ", "{", " ">>,
                   close |-> <<"}", " ">>, kind |-> "FunctionDeclaration"],
     while    |-> [open |-> <<"w", "h", "i", "l", "e", " ", "(", "x", ")", " ", "{", " ">>,
                   close |-> <<"}", " ">>, kind |-> "While"]]

TailStatement == <<"z", " ", "=", " ", "9", ";">>

RECURSIVE StatementsText(_)
StatementsText(is) ==
    IF is = <<>> THEN <<>>
    ELSE StatementTemplates[Head(is)].text \o <<" ">> \o StatementsText(Tail(is))

ProgramSource(m) ==
    Wrappers[m.wrap].open \o StatementsText(m.stmts) \o Wrappers[m.wrap].close
        \o (IF m.tail THEN TailStatement ELSE <<>>)

InitialState ==
    /\ pc = "lex"
    /\ pos = 0 /\ line = 1 /\ col = 1
    /\ tokens = <<>> /\ macros = <<>>
    /\ current = 0 /\ program = <<>> /\ errors = 0
    /\ escaped = "none" /\ output = <<>> /\ thrown = "none"
    /\ py_val = <<>> /\ ss_str = <<>> /\ res = <<>>

InitLex ==
    /\ \E is \in Seqs(Len(LexFragments), 0, MaxFrags) :
           /\ source = LexSource(is)
           /\ meta = [family |-> "lex"]
    /\ InitialState

InitProgram ==
    /\ \E is \in Seqs(Len(StatementTemplates), 1, MaxStmts) :
       \E w \in DOMAIN Wrappers : \E t \in BOOLEAN :
           /\ meta = [family |-> "program", wrap |-> w, stmts |-> is, tail |-> t]
           /\ source = ProgramSource(meta)
    /\ InitialState

\* The for-loop family: for (INIT; i OP BOUND; INCR) BODY, every part drawn
\* from a small catalogue.
ForStarts == <<<<"0">>, <<"1">>>>

ForOperators == <<<<"<">>, <<"<", "=">>, <<"!", "=">>>>

ForBounds == <<<<"5">>, <<"1", "0">>>>

\* 1, 2: the unary increments; 3 to 6: i = i + N for N = 0, 1, 2 and an N
\* above INT_MAX; 7: the multiplicative update.
ForIncrements ==
    <<<<"i", "+", "+">>, <<"+", "+", "i">>, <<"i", " ", "=", " ", "i", " ", "+", " ", "0">>, <<"i", " ", "=", " ", "i", " ", "+", " ", "1">>, <<"i", " ", "=", " ", "i", " ", "+", " ", "2">>, <<"i", " ", "=", " ", "i", " ", "+", " ", "9", "9", "9", "9", "9", "9", "9", "9", "9", "9", "9">>,
      <<"i", " ", "=", " ", "i", " ", "*", " ", "2">>>>

ForBodies == <<<<"s", " ", "=", " ", "s", " ", "+", " ", "i", ";">>, <<"{", " ", "i", "f", " ", "(", "i", " ", "=", "=", " ", "2", ")", " ", "c", "o", "n", "t", "i", "n", "u", "e", ";", " ", "s", " ", "=", " ", "s", " ", "+", " ", "i", ";", " ", "}">>>>

ForSource(m) ==
    <<"f", "o", "r", " ", "(">> \o (IF m.decl THEN <<"i", "n", "t", " ">> ELSE <<>>) \o <<"i", " ", "=", " ">> \o ForStarts[m.start]
        \o <<";", " ", "i", " ">> \o ForOperators[m.op] \o <<" ">> \o ForBounds[m.bound] \o <<";", " ">>
        \o ForIncrements[m.incr] \o <<")", " ">> \o ForBodies[m.body]

InitFor ==
    /\ \E d \in BOOLEAN : \E s \in DOMAIN ForStarts : \E o \in DOMAIN ForOperators :
       \E b \in DOMAIN ForBounds : \E n \in DOMAIN ForIncrements :
       \E y \in DOMAIN ForBodies :
           /\ meta = [family |-> "for", decl |-> d, start |-> s, op |-> o, bound |-> b,
                      incr |-> n, body |-> y]
           /\ source = ForSource(meta)
    /\ InitialState

\* The if family: a chain if (a) .. else if (b) .. else if (c) .. [else ..]
\* of n conditions, its branches single statements or blocks, at the top
\* level, in a function, or in one or two loops.
MaxChain == 3

IfConditions == <<<<"a">>, <<"b">>, <<"c">>>>

IfBranches == <<<<"y", " ", "=", " ", "1", ";">>, <<"b", "r", "e", "a", "k", ";">>, <<"c", "o", "n", "t", "i", "n", "u", "e", ";">>>>

IfWrappers ==
    << [open |-> <<>>, close |-> <<>>],
       [open |-> <<"w", "h", "i", "l", "e", " ", "(", "x", ")", " ">>, close |-> <<>>],
       [open |-> <<"v", "o", "i", "d", " ", "f", "(", ")", " ", "{", " ">>, close |-> <<" ", "}">>],
       [open |-> <<"w", "h", "i", "l", "e", " ", "(", "x", ")", " ", "w", "h", "i", "l", "e", " ", "(", "x", ")", " ">>, close |-> <<>>] >>

IfBranch(text, braces) == IF braces THEN <<"{", " ">> \o text \o <<" ", "}">> ELSE text

\* The chain from its k-th condition on.
RECURSIVE IfChainText(_, _)
IfChainText(m, k) ==
    <<"i", "f", " ", "(">> \o IfConditions[k] \o <<")", " ">> \o IfBranch(IfBranches[k], m.braces)
        \o (IF k < m.n THEN <<" ", "e", "l", "s", "e", " ">> \o IfChainText(m, k + 1)
            ELSE IF m.else THEN <<" ", "e", "l", "s", "e", " ">> \o IfBranch(<<"r", "e", "t", "u", "r", "n", ";">>, m.braces)
            ELSE <<>>)

IfSource(m) == IfWrappers[m.wrap].open \o IfChainText(m, 1) \o IfWrappers[m.wrap].close

InitIf ==
    /\ \E n \in 1..MaxChain : \E w \in DOMAIN IfWrappers : \E e \in BOOLEAN :
       \E b \in BOOLEAN :
           /\ meta = [family |-> "if", n |-> n, wrap |-> w, else |-> e, braces |-> b]
           /\ source = IfSource(meta)
    /\ InitialState

\* The printf family: printf("<first><separator><second><ending>", a, b)
\* with zero, one or two arguments.  The format is source text: its \n is
\* the two characters of the escape.
PrintfSpecifiers == <<<<"%", "d">>, <<"%", ".", "2", "f">>, <<"%", "%">>, <<"%", "s">>, <<"{", "x", "}">>>>

PrintfSeparators == <<<<" ", "a", "n", "d", " ">>, <<>>>>

PrintfEndings == <<<<"\\", "n">>, <<>>, <<"%">>>>

CallArguments == <<<<>>, <<",", " ", "a">>, <<",", " ", "a", ",", " ", "b">>>>

PrintfFormat(m) ==
    PrintfSpecifiers[m.first] \o PrintfSeparators[m.sep] \o PrintfSpecifiers[m.second]
        \o PrintfEndings[m.ending]

PrintfSource(m) ==
    <<"p", "r", "i", "n", "t", "f", "(", "\"">> \o PrintfFormat(m) \o <<"\"">> \o CallArguments[m.args + 1] \o <<")", ";">>

InitPrintf ==
    /\ \E f \in DOMAIN PrintfSpecifiers : \E p \in DOMAIN PrintfSeparators :
       \E s \in DOMAIN PrintfSpecifiers : \E e \in DOMAIN PrintfEndings :
       \E a \in 0..2 :
           /\ meta = [family |-> "printf", first |-> f, sep |-> p, second |-> s,
                      ending |-> e, args |-> a]
           /\ source = PrintfSource(meta)
    /\ InitialState

\* The scanf family: scanf("<first><separator><second>", targets) with zero,
\* one or two targets, with or without the address operator.
ScanfSpecifiers == <<<<"%", "d">>, <<"%", "f">>, <<"%", "s">>, <<"%", "c">>, <<"%", "x">>>>

ScanfSeparators == <<<<" ">>, <<>>, <<"\t">>, <<",">>>>

ScanfTargets == <<<<>>, <<",", " ", "&", "a">>, <<",", " ", "&", "a", ",", " ", "&", "b">>, <<",", " ", "a", ",", " ", "b">>>>

ScanfFormat(m) ==
    ScanfSpecifiers[m.first] \o ScanfSeparators[m.sep] \o ScanfSpecifiers[m.second]

ScanfSource(m) ==
    <<"s", "c", "a", "n", "f", "(", "\"">> \o ScanfFormat(m) \o <<"\"">> \o ScanfTargets[m.targets] \o <<")", ";">>

InitScanf ==
    /\ \E f \in DOMAIN ScanfSpecifiers : \E p \in DOMAIN ScanfSeparators :
       \E s \in DOMAIN ScanfSpecifiers : \E t \in DOMAIN ScanfTargets :
           /\ meta = [family |-> "scanf", first |-> f, sep |-> p, second |-> s,
                      targets |-> t]
           /\ source = ScanfSource(meta)
    /\ InitialState

\* The macro family: up to MaxLines lines, each a #define or the statement
\* y = 1;, the last one with or without its newline.  form says what the line
\* is; for a well-formed #define, name, parameters and body are the parts of
\* the directive as written.
MaxLines == 3

DefineLines ==
    << [text |-> <<"#", "d", "e", "f", "i", "n", "e", " ", "A", " ", "1">>, form |-> "object", name |-> <<"A">>,
        parameters |-> <<>>, body |-> <<"1">>],
       [text |-> <<"#", "d", "e", "f", "i", "n", "e", " ", "S", "Q", "(", "x", ")", " ", "x", " ", "*", " ", "x">>, form |-> "function", name |-> <<"S", "Q">>,
        parameters |-> <<<<"x">>>>, body |-> <<"x", " ", "*", " ", "x">>],
       [text |-> <<"#", "d", "e", "f", "i", "n", "e", " ", "M", "(", " ", "a", " ", ",", " ", "b", " ", ")", " ", "a", " ", "+", " ", "b">>, form |-> "function", name |-> <<"M">>,
        parameters |-> <<<<"a">>, <<"b">>>>, body |-> <<"a", " ", "+", " ", "b">>],
       [text |-> <<"#", "d", "e", "f", "i", "n", "e", " ", "E">>, form |-> "object", name |-> <<"E">>,
        parameters |-> <<>>, body |-> <<>>],
       [text |-> <<"#", "d", "e", "f", "i", "n", "e", " ", "Z", "(", "x", ")">>, form |-> "function", name |-> <<"Z">>,
        parameters |-> <<<<"x">>>>, body |-> <<>>],
       [text |-> <<"#", "d", "e", "f", "i", "n", "e", " ", "1", " ", "2">>, form |-> "malformed", name |-> <<>>,
        parameters |-> <<>>, body |-> <<>>],
       [text |-> <<"#", "d", "e", "f", "i", "n", "e", " ", "F", "(", "x", ",", ",", "y", ")", " ", "x">>, form |-> "malformed", name |-> <<>>,
        parameters |-> <<>>, body |-> <<>>],
       [text |-> <<"#", "d", "e", "f", "i", "n", "e", " ", "G", "(", "x">>, form |-> "malformed", name |-> <<>>,
        parameters |-> <<>>, body |-> <<>>],
       [text |-> <<"y", " ", "=", " ", "1", ";">>, form |-> "statement", name |-> <<>>,
        parameters |-> <<>>, body |-> <<>>] >>

RECURSIVE LinesText(_, _)
LinesText(is, newline) ==
    IF is = <<>> THEN <<>>
    ELSE DefineLines[Head(is)].text
         \o (IF Len(is) > 1 \/ newline THEN <<"\n">> ELSE <<>>)
         \o LinesText(Tail(is), newline)

MacroSource(m) == LinesText(m.lines, m.newline)

InitMacro ==
    /\ \E is \in Seqs(Len(DefineLines), 1, MaxLines) : \E n \in BOOLEAN :
           /\ meta = [family |-> "macro", lines |-> is, newline |-> n]
           /\ source = MacroSource(meta)
    /\ InitialState

\* The number family: <digits>[.<digits>]<exponent><suffix>, every part
\* possibly empty.
NumberDigits == <<<<>>, <<"1">>, <<"2", "3">>>>

NumberFractions == <<<<>>, <<"5">>, <<"0", "7">>>>

NumberExponents == <<<<>>, <<"e", "2">>, <<"e", "+", "2">>, <<"e", "-", "2">>, <<"E", "1", "0">>, <<"e", "+">>, <<"E", "-">>, <<"e">>>>

NumberSuffixes == <<<<>>, <<"f", "o", "o">>, <<";">>>>

NumberSource(m) ==
    NumberDigits[m.int] \o (IF m.dot THEN <<".">> \o NumberFractions[m.frac] ELSE <<>>)
        \o NumberExponents[m.exp] \o NumberSuffixes[m.suffix]

InitNumber ==
    /\ \E i \in DOMAIN NumberDigits : \E d \in BOOLEAN : \E f \in DOMAIN NumberFractions :
       \E e \in DOMAIN NumberExponents : \E s \in DOMAIN NumberSuffixes :
           /\ d \/ f = 1
           /\ meta = [family |-> "number", int |-> i, dot |-> d, frac |-> f,
                      exp |-> e, suffix |-> s]
           /\ source = NumberSource(meta)
    /\ InitialState

\* The string values the escaping functions are run on: up to MaxValueLen
\* characters, ordinary ones and those the supported escapes stand for.
MaxValueLen == 4

ValueChars == <<"a", "n", "0", "\n", "\t", "\r", "\\", "'", "\"">>

InitLiteral ==
    /\ \E is \in Seqs(Len(ValueChars), 0, MaxValueLen) :
           /\ py_val = Pick(ValueChars, is)
           /\ meta = [family |-> "literal"]
    /\ source = <<>>
    /\ pc = "escape"
    /\ pos = 0 /\ line = 1 /\ col = 1
    /\ tokens = <<>> /\ macros = <<>>
    /\ current = 0 /\ program = <<>> /\ errors = 0
    /\ escaped = "none" /\ output = <<>> /\ thrown = "none"
    /\ ss_str = <<>> /\ res = <<>>

\* The string family: x = "<body>"; where the body is up to MaxPieces
\* pieces of source text, each an ordinary character or an escape sequence.
\* char is the character the piece stands for in C.
MaxPieces == 3

StringPieces ==
    << [text |-> <<"a">>, char |-> "a"],
       [text |-> <<"n">>, char |-> "n"],
       [text |-> <<"\\", "n">>, char |-> "\n"],
       [text |-> <<"\\", "t">>, char |-> "\t"],
       [text |-> <<"\\", "\\">>, char |-> "\\"],
       [text |-> <<"\\", "\"">>, char |-> "\""],
       [text |-> <<"\\", "'">>, char |-> "'"] >>

RECURSIVE PiecesText(_)
PiecesText(is) ==
    IF is = <<>> THEN <<>> ELSE StringPieces[Head(is)].text \o PiecesText(Tail(is))

StringSource(m) == <<"x", " ", "=", " ", "\"">> \o PiecesText(m.pieces) \o <<"\"", ";">>

InitString ==
    /\ \E is \in Seqs(Len(StringPieces), 0, MaxPieces) :
           /\ meta = [family |-> "string", pieces |-> is]
           /\ source = StringSource(meta)
    /\ InitialState

\* The expression family: an expression statement of up to MaxOperators + 1
\* operands a, b, c joined by operators.  One operand may be written in
\* another form; x is its name.  node is the tree of the form in the grammar
\* of C, lvalue says whether that tree is an identifier or an array subscript.
MaxOperators == 2

\* tier is the binding strength of the operator, loosest first.
ExprOperators ==
    << [text |-> <<"=">>, tier |-> 0],
       [text |-> <<"|", "|">>, tier |-> 1],
       [text |-> <<"&", "&">>, tier |-> 2],
       [text |-> <<"=", "=">>, tier |-> 3], [text |-> <<"!", "=">>, tier |-> 3],
       [text |-> <<"<">>, tier |-> 4], [text |-> <<">">>, tier |-> 4],
       [text |-> <<"<", "=">>, tier |-> 4], [text |-> <<">", "=">>, tier |-> 4],
       [text |-> <<"+">>, tier |-> 5], [text |-> <<"-">>, tier |-> 5],
       [text |-> <<"*">>, tier |-> 6], [text |-> <<"/">>, tier |-> 6],
       [text |-> <<"%">>, tier |-> 6] >>

OperandNames == <<"a", "b", "c">>

IdentifierOf(x) == [kind |-> "Identifier", name |-> <<x>>]

NumberOf(d) == [kind |-> "Number", value |-> <<d>>]

UnaryOf(op, e) == [kind |-> "UnaryExpression", op |-> op, operand |-> e]

SubscriptOf(e, i) == [kind |-> "ArraySubscript", array |-> e, index |-> i]

OperandForms(x) ==
    << [text |-> <<x>>, node |-> IdentifierOf(x), lvalue |-> TRUE],
       [text |-> <<"5">>, node |-> NumberOf("5"), lvalue |-> FALSE],
       [text |-> <<"-", x>>, node |-> UnaryOf(<<"-">>, IdentifierOf(x)), lvalue |-> FALSE],
       [text |-> <<"!", x>>, node |-> UnaryOf(<<"!">>, IdentifierOf(x)), lvalue |-> FALSE],
       [text |-> <<x, "+", "+">>, node |-> UnaryOf(<<"+", "+">>, IdentifierOf(x)), lvalue |-> FALSE],
       [text |-> <<x, "[", "0", "]">>, node |-> SubscriptOf(IdentifierOf(x), NumberOf("0")),
        lvalue |-> TRUE],
       [text |-> <<x, "(", "1", ")">>,
        node |-> [kind |-> "FunctionCall", name |-> <<x>>, args |-> <<NumberOf("1")>>],
        lvalue |-> FALSE],
       [text |-> <<"-", x, "[", "0", "]">>,
        node |-> UnaryOf(<<"-">>, SubscriptOf(IdentifierOf(x), NumberOf("0"))), lvalue |-> FALSE],
       [text |-> <<"-", x, "+", "+">>,
        node |-> UnaryOf(<<"-">>, UnaryOf(<<"+", "+">>, IdentifierOf(x))), lvalue |-> FALSE],
       [text |-> <<"(", x, ")">>, node |-> IdentifierOf(x), lvalue |-> TRUE] >>

\* Operand k of the expression m.
Operand(m, k) == OperandForms(OperandNames[k])[IF k = m.pos THEN m.form ELSE 1]

RECURSIVE ExprText(_, _)
ExprText(m, k) ==
    Operand(m, k).text
        \o (IF k > Len(m.ops) THEN <<>>
            ELSE <<" ">> \o ExprOperators[m.ops[k]].text \o <<" ">> \o ExprText(m, k + 1))

ExprSource(m) == ExprText(m, 1) \o <<";">>

InitExpr ==
    /\ \E os \in Seqs(Len(ExprOperators), 0, MaxOperators) :
       \E p \in 1..(Len(os) + 1) : \E f \in DOMAIN OperandForms("a") :
           /\ f = 1 => p = 1
           /\ meta = [family |-> "expr", ops |-> os, pos |-> p, form |-> f]
           /\ source = ExprSource(meta)
    /\ InitialState

\* The declaration family: a declaration "T v<initializer>;" for each type
\* word T, at the top level, in a function body or in a while body, possibly
\* followed by a statement.
DeclTypes == <<<<"i", "n", "t">>, <<"f", "l", "o", "a", "t">>, <<"c", "h", "a", "r">>, <<"b", "o", "o", "l">>, <<"s", "t", "r", "i", "n", "g">>, <<"v", "o", "i", "d">>>>

DeclNames == <<<<"s">>, <<"c", "o", "u", "n", "t">>>>

DeclInitializers == <<<<>>, <<" ", "=", " ", "1">>, <<" ", "=", " ", "\"", "h", "i", "\"">>, <<" ", "=", " ", "a", " ", "+", " ", "1">>>>

DeclWrappers ==
    << [open |-> <<>>, close |-> <<>>, kind |-> "null"],
       [open |-> <<"v", "o", "i", "d", " ", "f", "(", ")", " ", "{", " ">>, close |-> <<" ", "}">>, kind |-> "FunctionDeclaration"],
       [open |-> <<"w", "h", "i", "l", "e", " ", "(", "x", ")", " ", "{", " ">>, close |-> <<" ", "}">>, kind |-> "While"] >>

DeclText(m) == DeclTypes[m.type] \o <<" ">> \o DeclNames[m.name]
                   \o DeclInitializers[m.init] \o <<";">>

DeclSource(m) ==
    DeclWrappers[m.wrap].open \o DeclText(m) \o DeclWrappers[m.wrap].close
        \o (IF m.tail THEN <<" ">> \o TailStatement ELSE <<>>)

InitDecl ==
    /\ \E t \in DOMAIN DeclTypes : \E n \in DOMAIN DeclNames :
       \E i \in DOMAIN DeclInitializers : \E w \in DOMAIN DeclWrappers :
       \E tl \in BOOLEAN :
           /\ meta = [family |-> "decl", type |-> t, name |-> n, init |-> i,
                      wrap |-> w, tail |-> tl]
           /\ source = DeclSource(meta)
    /\ InitialState

\* The counting family: for loops over the loop variable i that count up or
\* down, the direction of the update agreeing with the comparison or not.
\* step is the change of i per iteration.
CountStarts == <<<<"0">>, <<"5">>, <<"1", "0">>>>

CountOperators == <<<<"<">>, <<"<", "=">>, <<">">>, <<">", "=">>>>

CountBounds == <<<<"0">>, <<"5">>, <<"1", "0">>>>

CountUpdates ==
    << [text |-> <<"i", "+", "+">>, step |-> 1],
       [text |-> <<"i", " ", "=", " ", "i", " ", "+", " ", "2">>, step |-> 2],
       [text |-> <<"i", "-", "-">>, step |-> -1],
       [text |-> <<"-", "-", "i">>, step |-> -1],
       [text |-> <<"i", " ", "=", " ", "i", " ", "-", " ", "1">>, step |-> -1],
       [text |-> <<"i", " ", "=", " ", "i", " ", "-", " ", "2">>, step |-> -2] >>

CountSource(m) ==
    <<"f", "o", "r", " ", "(">> \o (IF m.decl THEN <<"i", "n", "t", " ">> ELSE <<>>) \o <<"i", " ", "=", " ">> \o CountStarts[m.start]
        \o <<";", " ", "i", " ">> \o CountOperators[m.op] \o <<" ">> \o CountBounds[m.bound] \o <<";", " ">>
        \o CountUpdates[m.incr].text \o <<")", " ", "s", " ", "=", " ", "s", " ", "+", " ", "i", ";">>

InitCount ==
    /\ \E d \in BOOLEAN : \E s \in DOMAIN CountStarts : \E o \in DOMAIN CountOperators :
       \E b \in DOMAIN CountBounds : \E n \in DOMAIN CountUpdates :
           /\ meta = [family |-> "count", decl |-> d, start |-> s, op |-> o, bound |-> b,
                      incr |-> n]
           /\ source = CountSource(meta)
    /\ InitialState

\* The nesting family: a statement, possibly followed by z = 2;, inside up
\* to two enclosing constructs.  levels are the nesting levels of the lines a
\* text is rendered as, relative to the statement list that contains it;
\* function says that the construct is a function declaration, empty that the
\* statement has a body that renders no text.
NestWrappers ==
    << [open |-> <<>>, levels |-> <<>>, depth |-> 0, function |-> FALSE],
       [open |-> <<"w", "h", "i", "l", "e", " ", "(", "x", ")", " ">>, levels |-> <<0>>, depth |-> 1, function |-> FALSE],
       [open |-> <<"i", "f", " ", "(", "a", ")", " ">>, levels |-> <<0>>, depth |-> 1, function |-> FALSE],
       [open |-> <<"i", "f", " ", "(", "a", ")", " ", "y", " ", "=", " ", "0", ";", " ", "e", "l", "s", "e", " ">>, levels |-> <<0, 1, 0>>, depth |-> 1, function |-> FALSE],
       [open |-> <<"f", "o", "r", " ", "(", "i", " ", "=", " ", "0", ";", " ", "i", " ", "<", " ", "3", ";", " ", "i", "+", "+", ")", " ">>, levels |-> <<0, 0>>, depth |-> 1, function |-> FALSE],
       [open |-> <<"v", "o", "i", "d", " ", "f", "(", ")", " ">>, levels |-> <<0>>, depth |-> 1, function |-> TRUE] >>

NestStatements ==
    << [text |-> <<"y", " ", "=", " ", "1", ";">>, levels |-> <<0>>, function |-> FALSE, empty |-> FALSE],
       [text |-> <<"w", "h", "i", "l", "e", " ", "(", "b", ")", " ", "y", " ", "=", " ", "1", ";">>, levels |-> <<0, 1>>, function |-> FALSE, empty |-> FALSE],
       [text |-> <<"i", "f", " ", "(", "b", ")", " ", "y", " ", "=", " ", "1", ";", " ", "e", "l", "s", "e", " ", "y", " ", "=", " ", "2", ";">>, levels |-> <<0, 1, 0, 1>>, function |-> FALSE,
        empty |-> FALSE],
       [text |-> <<"f", "o", "r", " ", "(", "j", " ", "=", " ", "0", ";", " ", "j", " ", "<", " ", "3", ";", " ", "j", "+", "+", ")", " ", "y", " ", "=", " ", "1", ";">>, levels |-> <<0, 0, 1>>, function |-> FALSE,
        empty |-> FALSE],
       [text |-> <<"v", "o", "i", "d", " ", "g", "(", ")", " ", "{", " ", "y", " ", "=", " ", "1", ";", " ", "}">>, levels |-> <<0, 1>>, function |-> TRUE, empty |-> FALSE],
       [text |-> <<"i", "n", "t", " ", "x", ";">>, levels |-> <<>>, function |-> FALSE, empty |-> TRUE],
       [text |-> <<"{", " ", "}">>, levels |-> <<>>, function |-> FALSE, empty |-> TRUE],
       [text |-> <<"w", "h", "i", "l", "e", " ", "(", "b", ")", " ", "i", "n", "t", " ", "x", ";">>, levels |-> <<0>>, function |-> FALSE, empty |-> TRUE] >>

\* The text of a construct around a body: in braces when asked for, and
\* always for a function.
Wrapped(w, braces, body) ==
    IF w.depth = 0 THEN body
    ELSE IF braces \/ w.function THEN w.open \o <<"{", " ">> \o body \o <<" ", "}">>
    ELSE w.open \o body

NestSource(m) ==
    Wrapped(NestWrappers[m.outer], m.braces,
        Wrapped(NestWrappers[m.inner], m.braces,
            NestStatements[m.stmt].text \o (IF m.tail THEN <<" ", "z", " ", "=", " ", "2", ";">> ELSE <<>>)))

InitNest ==
    /\ \E o \in DOMAIN NestWrappers : \E i \in DOMAIN NestWrappers :
       \E s \in DOMAIN NestStatements : \E b \in BOOLEAN : \E t \in BOOLEAN :
           /\ o = 1 => i = 1
           /\ t => (b \/ (o = 1 /\ i = 1))
           /\ meta = [family |-> "nest", outer |-> o, inner |-> i, stmt |-> s,
                      braces |-> b, tail |-> t]
           /\ source = NestSource(meta)
    /\ InitialState

Init == InitLex \/ InitProgram \/ InitFor \/ InitIf \/ InitPrintf
            \/ InitScanf \/ InitMacro \/ InitNumber \/ InitString \/ InitExpr
            \/ InitDecl \/ InitCount \/ InitNest

-----------------------------------------------------------------------------
(* The pipeline of main (src/main.cpp): tokenize, parse, transpile.        *)

\* One iteration of the loop of Lexer::tokenize: one call of nextToken, whose
\* token is appended; the loop ends with the EndOfFile token.
TokenizeStep ==
    /\ pc = "lex"
    /\ \E r \in {nextToken(source, [pos |-> pos, line |-> line, col |-> col,
                                     macros |-> macros])} :
           /\ tokens' = Append(tokens, r.tok)
           /\ pos' = r.lx.pos /\ line' = r.lx.line /\ col' = r.lx.col
           /\ macros' = r.lx.macros
           /\ pc' = IF tokenizeContinues(r.tok) THEN "lex" ELSE "parse"
    /\ UNCHANGED <<source, meta, current, program, errors, escaped, output, thrown, literal>>

\* One iteration of the loop of Parser::parseProgram.
ParseStep ==
    /\ pc = "parse"
    /\ ~isAtEnd(tokens, current)
    /\ \E it \in {parseProgramIteration(tokens, current)} :
           /\ current' = it.cur
           /\ program' = addChild(program, it.node)
           /\ errors' = errors + (IF it.error THEN 1 ELSE 0)
           /\ escaped' = it.exc
           /\ pc' = IF it.exc = "none" THEN "parse" ELSE "crashed"
    /\ UNCHANGED <<source, meta, pos, line, col, tokens, macros, output, thrown, literal>>

\* parseProgram's loop ends at the EndOfFile token and parse returns.
ParseReturn ==
    /\ pc = "parse"
    /\ isAtEnd(tokens, current)
    /\ pc' = "gen"
    /\ UNCHANGED <<source, meta, pos, line, col, tokens, macros, current,
                   program, errors, escaped, output, thrown, literal>>

\* Step 4 of main: the call of Transpiler::transpile on the program and the
\* macros of the lexer.  main catches an exception that leaves the call, and
\* python_code is then still empty.
Transpile ==
    /\ pc = "gen"
    /\ \E r \in {transpile(program, macros)} :
           /\ output' = r.text
           /\ thrown' = r.exc
    /\ pc' = "done"
    /\ UNCHANGED <<source, meta, pos, line, col, tokens, macros, current,
                   program, errors, escaped, literal>>

Next == TokenizeStep \/ ParseStep \/ ParseReturn \/ Transpile

Spec == Init /\ [][Next]_vars

SpecProgram == InitProgram /\ [][Next]_vars

SpecFor == InitFor /\ [][Next]_vars

SpecIf == InitIf /\ [][Next]_vars

SpecPrintf == InitPrintf /\ [][Next]_vars

SpecScanf == InitScanf /\ [][Next]_vars

SpecMacro == InitMacro /\ [][Next]_vars

SpecNumber == InitNumber /\ [][Next]_vars

SpecString == InitString /\ [][Next]_vars

SpecExpr == InitExpr /\ [][Next]_vars

SpecDecl == InitDecl /\ [][Next]_vars

SpecCount == InitCount /\ [][Next]_vars

SpecNest == InitNest /\ [][Next]_vars

\* The escaping functions run on their own: the loop of
\* transpileStringLiteralNode on a value, then unescapeLiteralContent on the
\* text it wrote.
EscapeLiteral ==
    /\ pc = "escape"
    /\ ss_str' = escapeStringContent(py_val)
    /\ pc' = "unescape"
    /\ UNCHANGED <<source, meta, pos, line, col, tokens, macros, current, program,
                   errors, escaped, output, thrown, py_val, res>>

UnescapeLiteral ==
    /\ pc = "unescape"
    /\ res' = unescapeLiteralContent(ss_str)
    /\ pc' = "returned"
    /\ UNCHANGED <<source, meta, pos, line, col, tokens, macros, current, program,
                   errors, escaped, output, thrown, py_val, ss_str>>

NextLiteral == EscapeLiteral \/ UnescapeLiteral

SpecLiteral == InitLiteral /\ [][NextLiteral]_vars

-----------------------------------------------------------------------------
(* Properties *)

\* Position a of the source is before position b.
Before(a, b) == a.line < b.line \/ (a.line = b.line /\ a.col < b.col)

\* C1: tokenize returns a sequence with exactly one EndOfFile token, which is
\* its last element; an Error token does not end tokenization (the loop goes
\* on after it), and the tokens are in source order.
C1_OneEndOfFileLast ==
    /\ \A i \in 1..Len(tokens) :
           tokens[i].type = "EndOfFile" <=> (i = Len(tokens) /\ pc # "lex")
    /\ pc # "lex" => tokens # <<>>
    /\ \A i \in 1..Len(tokens) - 1 : Before(tokens[i], tokens[i + 1])
    /\ pc # "lex" => tokens = tokenize(source).tokens

\* An Error token followed by an ordinary token in a finished token sequence.
C1_Witness ==
    /\ pc = "parse"
    /\ \E i \in 1..Len(tokens) : \E j \in (i + 1)..Len(tokens) :
           /\ tokens[i].type = "Error"
           /\ tokens[j].type \notin {"Error", "EndOfFile"}

\* C2: every call of nextToken that does not return EndOfFile moves pos
\* forward, within the text, and every iteration of parseProgram's loop, with
\* or without error recovery, moves current forward, up to the EndOfFile
\* token at most; so both loops end.
C2_Progress ==
    [][ /\ (pc = "lex" /\ pc' = "lex") => (pos < pos' /\ pos' <= Len(source))
        /\ (pc = "parse" /\ pc' # "gen") =>
               (current < current' /\ current' < Len(tokens))
        /\ (pc = "lex" /\ pc' = "parse") => Last(tokens').type = "EndOfFile" ]_vars

\* The loop of parseProgram has gone through a parsed statement and through a
\* recovery, and has reached the EndOfFile token.
C2_Witness ==
    /\ pc = "parse"
    /\ errors > 0 /\ program # <<>>
    /\ isAtEnd(tokens, current)

\* C3: no exception leaves Parser::parse on a token sequence made by
\* tokenize; parse returns its Program node, syntax errors being absorbed by
\* the statement loop.
C3_ParseNeverThrows ==
    /\ escaped = "none"
    /\ pc # "crashed"
    /\ pc \in {"gen", "done"} =>
           LET p == parse(tokens)
           IN  p.exc = "none" /\ p.children = program /\ p.errors = errors

\* parse has returned after a syntax error on a sequence with an Error token.
C3_Witness ==
    /\ pc = "gen"
    /\ errors > 0
    /\ \E i \in 1..Len(tokens) : tokens[i].type = "Error"

\* What parse makes of a statement template on its own.
ParsedAlone(t) == parse(tokenize(StatementTemplates[t].text).tokens)

ParsesAlone(t) ==
    /\ ParsedAlone(t).errors = 0
    /\ Len(ParsedAlone(t).children) = 1
    /\ ParsedAlone(t).children[1].kind = StatementTemplates[t].kind

Malformed(is) == {i \in 1..Len(is) : ~StatementTemplates[is[i]].valid}

\* The input is a program with exactly one malformed statement, the i-th of
\* meta.stmts, all the others being statements that parse on their own.
OneMalformed(i) ==
    /\ meta.family = "program"
    /\ Malformed(meta.stmts) = {i}
    /\ \A j \in 1..Len(meta.stmts) : j # i => ParsesAlone(meta.stmts[j])

\* The statements of the input after the i-th, the tail statement included.
KindsAfter(i) ==
    [j \in 1..(Len(meta.stmts) - i) |-> StatementTemplates[meta.stmts[i + j]].kind]
        \o (IF meta.tail THEN <<"ExpressionStatement">> ELSE <<>>)

Kinds(nodes) == [j \in 1..Len(nodes) |-> nodes[j].kind]

IsSuffix(s, t) == Len(s) <= Len(t) /\ s = SubSeq(t, Len(t) - Len(s) + 1, Len(t))

\* C5: a program with exactly one malformed statement (at top level) is
\* parsed with exactly one syntax error, and the valid statements after the
\* malformed one are the last children of the Program.
C5_OneErrorPerMalformedStatement ==
    \A i \in 1..MaxStmts :
        (pc = "gen" /\ OneMalformed(i) /\ meta.wrap = "top") =>
            /\ errors = 1
            /\ IsSuffix(KindsAfter(i), Kinds(program))

\* The statements of meta.stmts other than the i-th.
KindsExcept(i) ==
    [j \in 1..(Len(meta.stmts) - 1) |->
        StatementTemplates[meta.stmts[IF j < i THEN j ELSE j + 1]].kind]

BodyOf(node) ==
    IF node.kind = "Block" THEN node.stmts
    ELSE IF node.body.kind = "Block" THEN node.body.stmts ELSE <<>>

\* C6: when the malformed statement is nested in a block, function or while
\* body, the enclosing construct is a child of the Program and holds the
\* other statements of its body.
C6_EnclosingConstructKept ==
    \A i \in 1..MaxStmts :
        (pc = "gen" /\ OneMalformed(i) /\ meta.wrap # "top") =>
            \E c \in 1..Len(program) :
                /\ program[c].kind = Wrappers[meta.wrap].kind
                /\ Kinds(BodyOf(program[c])) = KindsExcept(i)

\* The input is a program all of whose statements belong to the grammar.
ValidProgram ==
    /\ meta.family = "program"
    /\ Malformed(meta.stmts) = {}

\* The kinds of the top-level statements of the input, in source order.
TopLevelKinds ==
    (IF meta.wrap = "top"
     THEN [j \in 1..Len(meta.stmts) |-> StatementTemplates[meta.stmts[j]].kind]
     ELSE <<Wrappers[meta.wrap].kind>>)
        \o (IF meta.tail THEN <<"ExpressionStatement">> ELSE <<>>)

\* C7: for a valid program, parse reports no syntax error and the Program has
\* one child per top-level statement, in source order.
C7_OneChildPerStatement ==
    (pc = "gen" /\ ValidProgram) =>
        /\ errors = 0
        /\ Kinds(program) = TopLevelKinds

\* C7 for the programs that do not declare a string variable.
C7_WithoutStringDeclarations ==
    (pc = "gen" /\ ValidProgram /\ \A j \in 1..Len(meta.stmts) : meta.stmts[j] # 3) =>
        /\ errors = 0
        /\ Kinds(program) = TopLevelKinds

C7_WithoutStringWitness ==
    /\ pc = "gen" /\ ValidProgram /\ meta.wrap = "function"
    /\ meta.stmts = <<4, 2>> /\ meta.tail


\* C4: no exception leaves Transpiler::transpile, whatever program and macro
\* list the tokenizer and the parser hand it, a macro whose body is not a
\* complete expression included.
C4_TranspileNeverThrows == thrown = "none"

\* The end of the first line of a text: the position of its first newline,
\* or one past its end.
LineEnd(text) ==
    CHOOSE i \in 1..(Len(text) + 1) :
        /\ i = Len(text) + 1 \/ text[i] = "\n"
        /\ \A j \in 1..(i - 1) : text[j] # "\n"

\* The lines of a text, each without its newline.
RECURSIVE Lines(_)
Lines(text) ==
    IF text = <<>> THEN <<>>
    ELSE <<SubSeq(text, 1, LineEnd(text) - 1)>>
         \o Lines(SubSeq(text, LineEnd(text) + 1, Len(text)))

\* Line n of the generated text, as a string.
OutputLine(n) ==
    IF n <= Len(Lines(output)) THEN Str(Lines(output)[n]) ELSE ""

\* The text s begins with the text p.
StartsWith(s, p) == Len(s) >= Len(p) /\ SubSeq(s, 1, Len(p)) = p

\* A line without its indentation.
RECURSIVE Unindented(_)
Unindented(l) == IF l # <<>> /\ Head(l) = " " THEN Unindented(Tail(l)) ELSE l

\* Some line of the generated text, whatever its indentation, begins with p.
SomeLineStartsWith(p) ==
    \E n \in 1..Len(Lines(output)) :
        StartsWith(Unindented(Lines(output)[n]), p)

\* No line of the generated text is the header of a while loop.
NoWhileLine == ~SomeLineStartsWith(<<"w", "h", "i", "l", "e", " ">>)

\* The increment of a loop m of the family, as a string.
IncrementText(m) == Str(ForIncrements[m.incr])

\* The increments of the family that are i++, ++i or i = i + N.
AdditiveIncrements ==
    {"i++", "++i", "i = i + 0", "i = i + 1", "i = i + 2", "i = i + 99999999999"}

\* Those whose N is neither zero nor above INT_MAX.
NonzeroIncrements == {"i++", "++i", "i = i + 1", "i = i + 2"}

\* The range header the claim describes for a loop m of the family.
RangeHeader(m) ==
    "for i in range(" \o Str(ForStarts[m.start]) \o ", "
        \o (IF Str(ForOperators[m.op]) = "<=" THEN "(" \o Str(ForBounds[m.bound]) \o " + 1)"
            ELSE Str(ForBounds[m.bound]))
        \o (IF IncrementText(m) = "i = i + 2" THEN ", 2" ELSE "")
        \o "):"

\* The loop m is rendered as a range loop.
RenderedAsRange(m) ==
    /\ OutputLine(1) = "i = " \o Str(ForStarts[m.start])
    /\ SomeLineStartsWith(
           <<"f", "o", "r", " ", "i", " ", "i", "n", " ", "r", "a", "n", "g", "e", "(">>)
    /\ NoWhileLine

\* The loop m is rendered as a while loop whose last statement is the update.
RenderedAsWhile(m) ==
    /\ OutputLine(1) = "i = " \o Str(ForStarts[m.start])
    /\ OutputLine(2) = "while (i " \o Str(ForOperators[m.op]) \o " "
                           \o Str(ForBounds[m.bound]) \o "):"
    /\ OutputLine(Len(Lines(output))) = "    i = (i * 2)"

\* C9, as stated: a for loop with the condition i < B or i <= B and the
\* increment i++, ++i or i = i + N, for every integer literal N, is rendered as
\* a range loop and not as a while loop; with the increment i = i * 2 it is
\* rendered as a while loop that keeps the update.
C9_RangeForEveryLiteral ==
    pc = "done" /\ meta.family = "for" =>
        /\ Str(ForOperators[meta.op]) \in {"<", "<="}
               /\ IncrementText(meta) \in AdditiveIncrements
               => RenderedAsRange(meta)
        /\ IncrementText(meta) = "i = i * 2" => RenderedAsWhile(meta)

\* C9, amended: the same for N a nonzero literal that fits an int, with the
\* header the claim gives: range(S, B) for <, range(S, (B + 1)) for <=, and
\* the step as third argument when it is not 1.
C9_RangeForNonzeroStep ==
    pc = "done" /\ meta.family = "for" =>
        /\ Str(ForOperators[meta.op]) \in {"<", "<="}
               /\ IncrementText(meta) \in NonzeroIncrements
               => RenderedAsRange(meta) /\ OutputLine(2) = RangeHeader(meta)
        /\ IncrementText(meta) = "i = i * 2" => RenderedAsWhile(meta)

\* for (int i = 1; i <= 10; i = i + 2) has been rendered over [1, 11) with step 2.
C9_Witness ==
    /\ pc = "done" /\ meta.family = "for"
    /\ meta.decl
    /\ IncrementText(meta) = "i = i + 2"
    /\ OutputLine(2) = "for i in range(1, (10 + 1), 2):"


(***************************************************************************)
(* Reference semantics for the equivalence of a C loop and the Python text *)
(* generated for it.  A statement tree is either the AST of the parser     *)
(* (the C program) or the tree read back from the generated text (the      *)
(* Python program); integers stand for the truth values.  An environment   *)
(* maps the variable names to integers.                                    *)
(***************************************************************************)

\* The number of iterations a loop is followed for.
MaxIterations == 12

\* The variables of the for-loop family, all zero before the loop.
InitialEnv == [n \in {"i", "s"} |-> 0]

Bind(v, K(_)) == K(v)

Truth(b) == IF b THEN 1 ELSE 0

Arith(op, a, b) ==
    CASE op = "+" -> a + b
      [] op = "-" -> a - b
      [] op = "*" -> a * b
      [] op = "<" -> Truth(a < b)
      [] op = "<=" -> Truth(a <= b)
      [] op = ">" -> Truth(a > b)
      [] op = ">=" -> Truth(a >= b)
      [] op = "==" -> Truth(a = b)
      [] op = "!=" -> Truth(a # b)

\* A unary operator applied to the operand whose evaluation gave o.  In C,
\* ++x and x++ store x + 1 in x.  In Python, ++x is +(+x) and --x is -(-x):
\* the value of x, and x keeps its value.
UnaryValue(lang, e, o) ==
    IF Str(e.op) \in {"++", "--"} /\ lang = "c"
    THEN Bind(o.val + (IF Str(e.op) = "++" THEN 1 ELSE -1), LAMBDA v :
         [val |-> v, env |-> [o.env EXCEPT ![Str(e.operand.name)] = v]])
    ELSE IF Str(e.op) = "-" THEN [val |-> -o.val, env |-> o.env]
    ELSE o

\* The value of an expression and the environment after its evaluation.
RECURSIVE Eval(_, _, _)
Eval(lang, e, env) ==
    CASE e.kind = "null" -> [val |-> 1, env |-> env]
      [] e.kind = "Number" -> [val |-> stoi(e.value).val, env |-> env]
      [] e.kind = "Identifier" -> [val |-> env[Str(e.name)], env |-> env]
      [] e.kind = "BinaryExpression" ->
             Bind(Eval(lang, e.left, env), LAMBDA l :
             Bind(Eval(lang, e.right, l.env), LAMBDA r :
             [val |-> Arith(Str(e.op), l.val, r.val), env |-> r.env]))
      [] e.kind = "Assignment" ->
             Bind(Eval(lang, e.rvalue, env), LAMBDA r :
             [val |-> r.val, env |-> [r.env EXCEPT ![Str(e.lvalue.name)] = r.val]])
      [] e.kind = "UnaryExpression" ->
             Bind(Eval(lang, e.operand, env), LAMBDA o : UnaryValue(lang, e, o))

Normal(env) == [sig |-> "normal", env |-> env]

\* The execution of a statement that is not a loop: the environment after it
\* and how it ended ("normal", "continue" or "break").
RECURSIVE Exec(_, _, _)
RECURSIVE ExecSeq(_, _, _, _)

ExecSeq(lang, stmts, k, r) ==
    IF k > Len(stmts) \/ r.sig # "normal" THEN r
    ELSE ExecSeq(lang, stmts, k + 1, Exec(lang, stmts[k], r.env))

Exec(lang, stmt, env) ==
    CASE stmt.kind = "null" -> Normal(env)
      [] stmt.kind = "ExpressionStatement" -> Normal(Eval(lang, stmt.expr, env).env)
      [] stmt.kind = "VariableDeclaration" ->
             IF stmt.init = NoNode THEN Normal(env)
             ELSE Bind(Eval(lang, stmt.init, env), LAMBDA r :
                  Normal([r.env EXCEPT ![Str(stmt.name)] = r.val]))
      [] stmt.kind = "Block" -> ExecSeq(lang, stmt.stmts, 1, Normal(env))
      [] stmt.kind = "If" ->
             Bind(Eval(lang, stmt.cond, env), LAMBDA c :
             IF c.val # 0 THEN Exec(lang, stmt.thenBranch, c.env)
             ELSE Exec(lang, stmt.elseBranch, c.env))
      [] stmt.kind = "Continue" -> [sig |-> "continue", env |-> env]
      [] stmt.kind = "Break" -> [sig |-> "break", env |-> env]

\* A loop with a condition, a body and an increment, followed for fuel
\* iterations: while the condition holds, the body runs, then the increment,
\* which a continue in the body does not skip and a break does.  A Python
\* while loop is such a loop without increment.  The result is the sequence
\* of the values of i at the start of the iterations, and whether the loop
\* ended within the iterations followed.
RECURSIVE Loop(_, _, _, _, _)
Loop(lang, loop, env, fuel, trace) ==
    IF fuel = 0 THEN [ended |-> FALSE, trace |-> trace]
    ELSE Bind(Eval(lang, loop.cond, env), LAMBDA c :
         IF c.val = 0 THEN [ended |-> TRUE, trace |-> trace]
         ELSE Bind(Exec(lang, loop.body, c.env), LAMBDA b :
              IF b.sig = "break" THEN [ended |-> TRUE, trace |-> Append(trace, c.env["i"])]
              ELSE Loop(lang, loop, Eval(lang, loop.incr, b.env).env, fuel - 1,
                        Append(trace, c.env["i"]))))

\* The C for statement: the initializer, then the loop.
RunFor(forNode) ==
    Loop("c", forNode, Exec("c", forNode.init, InitialEnv).env, MaxIterations, <<>>)

\* --- reading the generated text back ---

\* The number of leading spaces of a line.
RECURSIVE Indentation(_)
Indentation(l) == IF l # <<>> /\ Head(l) = " " THEN 1 + Indentation(Tail(l)) ELSE 0

\* The lines of a text with their nesting level.
PyLines(text) ==
    [n \in 1..Len(Lines(text)) |->
        [level |-> Indentation(Lines(text)[n]) \div 4,
         content |-> Unindented(Lines(text)[n])]]

\* An expression of the generated text.  The generator writes identifiers,
\* integers, parentheses, the arithmetic and comparison operators and =, which
\* Python reads as the parser of the C source does; ++x is read as the unary
\* operator ++ applied to x, to which UnaryValue gives its Python meaning.
PyExpr(text) == parseExpression(tokenize(text).tokens, 0).node

\* The header text between its first k characters and the final colon.
HeaderExpr(content, k) == PyExpr(SubSeq(content, k + 1, Len(content) - 1))

PyBlockNode(stmts) == [kind |-> "Block", stmts |-> stmts]

\* The statements of the block of the given level that starts at line n:
\* [stmts, next], next being the first line after the block.
RECURSIVE PyBlock(_, _, _, _)

\* An if statement whose then-branch ends before line n: an else at the level
\* of the if attaches its block.
PyElse(lines, n, level, acc, cond, thenStmts) ==
    IF n <= Len(lines) /\ lines[n].level = level /\ Str(lines[n].content) = "else:"
    THEN Bind(PyBlock(lines, n + 1, level + 1, <<>>), LAMBDA e :
         PyBlock(lines, e.next, level,
                 Append(acc, [kind |-> "If", cond |-> cond,
                              thenBranch |-> PyBlockNode(thenStmts),
                              elseBranch |-> PyBlockNode(e.stmts)])))
    ELSE PyBlock(lines, n, level,
                 Append(acc, [kind |-> "If", cond |-> cond,
                              thenBranch |-> PyBlockNode(thenStmts),
                              elseBranch |-> NoNode]))

\* The statement whose header is content and whose block is body.
PyCompound(lines, level, acc, content, body) ==
    IF StartsWith(content, <<"w", "h", "i", "l", "e", " ">>)
    THEN PyBlock(lines, body.next, level,
                 Append(acc, [kind |-> "While", cond |-> HeaderExpr(content, 6),
                              incr |-> NoNode, body |-> PyBlockNode(body.stmts)]))
    ELSE PyElse(lines, body.next, level, acc, HeaderExpr(content, 3), body.stmts)

PySimple(content) ==
    CASE Str(content) = "continue" -> [kind |-> "Continue"]
      [] Str(content) = "break" -> [kind |-> "Break"]
      [] Str(content) = "pass" -> PyBlockNode(<<>>)
      [] OTHER -> [kind |-> "ExpressionStatement", expr |-> PyExpr(content)]

PyBlock(lines, n, level, acc) ==
    IF n > Len(lines) \/ lines[n].level < level THEN [stmts |-> acc, next |-> n]
    ELSE IF Last(lines[n].content) = ":"
    THEN PyCompound(lines, level, acc, lines[n].content,
                    PyBlock(lines, n + 1, level + 1, <<>>))
    ELSE PyBlock(lines, n + 1, level, Append(acc, PySimple(lines[n].content)))

\* The Python program of a text.
PyProgram(text) == PyBlock(PyLines(text), 1, 0, <<>>).stmts

\* The statements before the first while loop run, then the loop.
RECURSIVE RunPyFrom(_, _, _)
RunPyFrom(stmts, k, env) ==
    IF k > Len(stmts) THEN [ended |-> TRUE, trace |-> <<>>]
    ELSE IF stmts[k].kind = "While" THEN Loop("py", stmts[k], env, MaxIterations, <<>>)
    ELSE RunPyFrom(stmts, k + 1, Exec("py", stmts[k], env).env)

RunPython(text) == RunPyFrom(PyProgram(text), 1, InitialEnv)

\* C10: when a for loop is rendered as a while loop, the generated text is
\* equivalent to the C loop: the loop variable takes the same values at the
\* start of the iterations and the loops run the same number of iterations,
\* whatever the body (one that executes continue included) and the increment
\* (i++ and i = i * 2 included).  The loops are followed for MaxIterations
\* iterations; the loop whose increment does not fit an int is left out.
C10_FallbackEquivalent ==
    pc = "done" /\ meta.family = "for" /\ IncrementText(meta) # "i = i + 99999999999"
        /\ SomeLineStartsWith(<<"w", "h", "i", "l", "e", " ">>)
        => RunPython(output) = RunFor(program[1])


-----------------------------------------------------------------------------
(* if / else if / else chains *)

\* A line of the generated text is the header of an if, elif or else.
IsChainHeader(l) ==
    \/ StartsWith(Unindented(l), <<"i", "f", " ">>)
    \/ StartsWith(Unindented(l), <<"e", "l", "i", "f", " ">>)
    \/ Unindented(l) = <<"e", "l", "s", "e", ":">>

\* The header lines of the generated text, in order.
ChainHeaders == SelectSeq(Lines(output), IsChainHeader)

\* The keywords of the headers of a chain of n conditions
ExpectedHeaders(n, withElse) ==
    [k \in 1..(n + (IF withElse THEN 1 ELSE 0)) |->
        IF k = 1 THEN "if" ELSE IF k <= n THEN "elif" ELSE "else"]

HeaderKeyword(l) ==
    IF StartsWith(Unindented(l), <<"i", "f", " ">>) THEN "if"
    ELSE IF StartsWith(Unindented(l), <<"e", "l", "i", "f", " ">>) THEN "elif"
    ELSE "else"

\* C11: a chain of N conditions is rendered as one if header, N-1 elif
\* headers and (when the chain ends with an else) one else header, in this
\* order, and every header has the indentation of the if header, whatever
\* the indentation the chain starts at.
C11_ChainHeadersAligned ==
    pc = "done" /\ meta.family = "if" =>
        /\ [k \in 1..Len(ChainHeaders) |-> HeaderKeyword(ChainHeaders[k])]
               = ExpectedHeaders(meta.n, meta.else)
        /\ \A k \in 1..Len(ChainHeaders) :
               Indentation(ChainHeaders[k]) = Indentation(ChainHeaders[1])

\* A chain of three conditions and an else, two levels deep, has been
\* rendered with its four headers.
C11_Witness ==
    /\ pc = "done" /\ meta.family = "if"
    /\ meta.n = MaxChain /\ meta.else
    /\ Len(ChainHeaders) = MaxChain + 1
    /\ Indentation(ChainHeaders[1]) = 8
    /\ Indentation(ChainHeaders[MaxChain + 1]) = 8

-----------------------------------------------------------------------------
(* printf *)

\* C12: printf("%d and %.2f\n", a, b) is rendered as the one line
\* print(f"{a} and {b}\n"): each of the two conversion specifiers is replaced
\* as a whole by a placeholder, and the newline is written as an escape.
C12_PrintfExample ==
    pc = "done" /\ meta.family = "printf"
        /\ Str(PrintfFormat(meta)) = "%d and %.2f\\n" /\ meta.args = 2
        => Str(output) = "print(f\"{a} and {b}\\n\")\n"

\* What the generator writes for this call: the characters 2f of the second
\* specifier stay in the text.
C12_SpecifierTailKept ==
    pc = "done" /\ meta.family = "printf"
        /\ Str(PrintfFormat(meta)) = "%d and %.2f\\n" /\ meta.args = 2
        => Str(output) = "print(f\"{a} and {b}2f\\n\")\n"

\* A piece of a format of the family is a conversion specifier: a % that is
\* not followed by %.
IsConversion(piece) == piece[1] = "%" /\ piece[2] # "%"

\* The names of the call arguments of the family, in order.
ArgumentNames == <<"a", "b">>

\* The rendering of a piece of the format when used arguments have been
\* consumed before it and the call has n arguments: a conversion specifier is
\* the placeholder of the next argument, or is left as it is when no argument
\* remains; %% is one %; the braces of {x} are doubled.
RenderedPiece(piece, used, n) ==
    IF IsConversion(piece)
    THEN IF used < n THEN "{" \o ArgumentNames[used + 1] \o "}" ELSE Str(piece)
    ELSE IF Str(piece) = "%%" THEN "%" ELSE "{{x}}"

\* The number of arguments the first piece of the format m consumes.
UsedByFirst(m) == IF IsConversion(PrintfSpecifiers[m.first]) /\ m.args >= 1 THEN 1 ELSE 0

\* The line the claim describes for the call m of the family.
ExpectedPrint(m) ==
    "print(f\"" \o RenderedPiece(PrintfSpecifiers[m.first], 0, m.args)
        \o Str(PrintfSeparators[m.sep])
        \o RenderedPiece(PrintfSpecifiers[m.second], UsedByFirst(m), m.args)
        \o Str(PrintfEndings[m.ending]) \o "\")\n"

\* C26: the i-th conversion specifier of the format is replaced by the
\* placeholder of the i-th argument, %% becomes one %, { and } are doubled, a %
\* at the end of the format or with no argument left is a literal %, and the
\* output is one print(f"...") line.
C26_SpecifiersReplaced ==
    (pc = "done" /\ meta.family = "printf") => Str(output) = ExpectedPrint(meta)

\* A specifier of the format m is longer than two characters and has an
\* argument.
LongSpecifierUsed(m) ==
    \/ Len(PrintfSpecifiers[m.first]) > 2 /\ IsConversion(PrintfSpecifiers[m.first])
           /\ m.args >= 1
    \/ Len(PrintfSpecifiers[m.second]) > 2 /\ IsConversion(PrintfSpecifiers[m.second])
           /\ UsedByFirst(m) < m.args

\* What the generator does guarantee: the same for the formats whose
\* specifiers are a % and one character.
C26_TwoCharacterSpecifiersReplaced ==
    (pc = "done" /\ meta.family = "printf" /\ ~LongSpecifierUsed(meta))
        => Str(output) = ExpectedPrint(meta)

\* printf("%d%%", a) was rendered as print(f"{a}%").
C26_WitnessTwoCharacters ==
    /\ pc = "done" /\ meta.family = "printf" /\ ~LongSpecifierUsed(meta)
    /\ Str(source) = "printf(\"%d%%\", a);"
    /\ Str(output) = "print(f\"{a}%\")\n"

-----------------------------------------------------------------------------
(* scanf *)

\* The call scanf("%d %d", &a, &b) of the family.
IsScanfTwoInts(m) ==
    m.family = "scanf" /\ Str(ScanfFormat(m)) = "%d %d" /\ Str(ScanfTargets[m.targets]) = ", &a, &b"

\* C13: scanf("%d %d", &a, &b) is rendered as three lines: one combined read
\* _temp_inputs = input(...).split(), then a = int(_temp_inputs[0]), then
\* b = int(_temp_inputs[1]).
C13_ScanfTwoInts ==
    pc = "done" /\ IsScanfTwoInts(meta) =>
        /\ Len(Lines(output)) = 3
        /\ Str(Lines(output)[1]) = "_temp_inputs = input(\"Enter values for format '%d %d'\\n\").split()"
        /\ Str(Lines(output)[2]) = "a = int(_temp_inputs[0])"
        /\ Str(Lines(output)[3]) = "b = int(_temp_inputs[1])"

\* The call has been rendered, with its combined read.
C13_Witness ==
    /\ pc = "done" /\ IsScanfTwoInts(meta)
    /\ StartsWith(output, <<"_", "t", "e", "m", "p", "_", "i", "n", "p", "u", "t", "s", " ", "=", " ", "i", "n", "p", "u", "t", "(">>)
    /\ thrown = "none" /\ errors = 0

\* The assignment the claim describes for a specifier, its target and the
\* text read for it.
PairedAssignment(spec, target, rhs) ==
    CASE Str(spec) = "%d" -> target \o " = int(" \o rhs \o ")"
      [] Str(spec) = "%f" -> target \o " = float(" \o rhs \o ")"
      [] Str(spec) = "%s" -> target \o " = " \o rhs
      [] Str(spec) = "%c" -> target \o " = (" \o rhs \o ")[0] if " \o rhs \o " else ''"

\* The call m of the family has the two targets &a, &b and two of the
\* specifiers %d, %f, %s, %c.
IsScanfPair(m) ==
    /\ m.family = "scanf"
    /\ Str(ScanfTargets[m.targets]) = ", &a, &b"
    /\ Str(ScanfSpecifiers[m.first]) \in {"%d", "%f", "%s", "%c"}
    /\ Str(ScanfSpecifiers[m.second]) \in {"%d", "%f", "%s", "%c"}

\* The lines of the generated text, as strings.
OutputLines == [n \in 1..Len(Lines(output)) |-> Str(Lines(output)[n])]

\* Both targets are assigned, in order, each as its specifier says.
BothAssigned(m) ==
    /\ Len(OutputLines) = 3
    /\ OutputLines[2] = PairedAssignment(ScanfSpecifiers[m.first], "a", "_temp_inputs[0]")
    /\ OutputLines[3] = PairedAssignment(ScanfSpecifiers[m.second], "b", "_temp_inputs[1]")

\* C27: every specifier of the format is paired, in order, with the next
\* target, and each paired target receives one assignment (%d int, %f float,
\* %s identity, %c first character or empty), whether or not the specifiers
\* are separated by whitespace; scanf("%d%d", &a, &b) assigns a and b.
C27_EverySpecifierPaired ==
    (pc = "done" /\ IsScanfPair(meta)) => BothAssigned(meta)

\* What the generator does guarantee: the same when a blank or a tab
\* separates the specifiers.
C27_PairedWhenSeparated ==
    (pc = "done" /\ IsScanfPair(meta) /\ Str(ScanfSeparators[meta.sep]) \in {" ", "\t"})
        => BothAssigned(meta)

\* Without whitespace between them the two specifiers are read as one word,
\* which is no known specifier: a alone is assigned, unconverted, and b is
\* reported as not assigned.
C27_UnseparatedReadAsOne ==
    (pc = "done" /\ IsScanfPair(meta) /\ Str(ScanfSeparators[meta.sep]) \in {"", ","}) =>
        /\ Len(OutputLines) = 4
        /\ OutputLines[2] = "a = _temp_inputs[0] # Unhandled scanf specifier "
                                \o Str(ScanfFormat(meta))
        /\ OutputLines[3] = "# Warning: Not all scanf target variables were assigned due to too few format specifiers processed."
        /\ \A n \in 1..4 : ~StartsWith(Lines(output)[n], <<"b", " ", "=">>)

-----------------------------------------------------------------------------
(* Macros *)

\* The bodies of the family that are one expression, or empty.
ExpressionBodies == {"1", "x * x", "a + b", ""}

\* The Python expression of such a body.
ExprOf(body) ==
    CASE Str(body) = "1" -> <<"1">>
      [] Str(body) = "x * x" -> <<"(", "x", " ", "*", " ", "x", ")">>
      [] Str(body) = "a + b" -> <<"(", "a", " ", "+", " ", "b", ")">>
      [] Str(body) = "" -> <<"N", "o", "n", "e">>

\* The names p1, ..., pk separated by ", ", from the i-th on.
RECURSIVE ParameterList(_, _)
ParameterList(ps, i) ==
    IF i > Len(ps) THEN <<>>
    ELSE (IF i > 1 THEN <<",", " ">> ELSE <<>>) \o ps[i] \o ParameterList(ps, i + 1)

\* The rendering of one macro definition.
MacroRendering(m) ==
    IF ~m.valid THEN <<>>
    ELSE IF m.isFunctionLike
    THEN <<"d", "e", "f", " ">> \o m.name \o <<"(">> \o ParameterList(m.parameters, 1) \o <<")", ":", "\n">>
         \o <<" ", " ", " ", " ", "r", "e", "t", "u", "r", "n", " ">> \o ExprOf(m.body) \o <<"\n">>
    ELSE m.name \o <<" ", "=", " ">> \o ExprOf(m.body) \o <<"\n">>

RECURSIVE MacroRenderings(_, _)
MacroRenderings(ms, i) ==
    IF i > Len(ms) THEN <<>> ELSE MacroRendering(ms[i]) \o MacroRenderings(ms, i + 1)

\* The statements of the family are all y = 1;
RECURSIVE StatementRenderings(_)
StatementRenderings(n) == IF n = 0 THEN <<>> ELSE <<"y", " ", "=", " ", "1", "\n">> \o StatementRenderings(n - 1)

\* C14: the generated text is the renderings of the valid macros of the macro
\* list, in the order of the list (NAME = <expr> for an object-like macro,
\* def NAME(p1, ..., pk): and an indented return <expr> for a function-like
\* one, <expr> being None for an empty body), then the statements of the
\* program; a macro that is not valid contributes nothing.
C14_MacrosRenderedFirst ==
    pc = "done" /\ meta.family = "macro"
        /\ (\A i \in 1..Len(macros) :
                macros[i].valid => Str(macros[i].body) \in ExpressionBodies)
        => output = MacroRenderings(macros, 1)
                    \o (IF MacroRenderings(macros, 1) # <<>> THEN <<"\n">> ELSE <<>>)
                    \o StatementRenderings(Len(program))

\* A text has been generated from a macro list with a function-like macro, an
\* object-like macro without body and an invalid macro, and from a program
\* with a statement.
C14_Witness ==
    /\ pc = "done" /\ meta.family = "macro" /\ thrown = "none"
    /\ \A i \in 1..Len(macros) : macros[i].valid => Str(macros[i].body) \in ExpressionBodies
    /\ \E i \in 1..Len(macros) : ~macros[i].valid
    /\ \E i \in 1..Len(macros) : macros[i].valid /\ macros[i].isFunctionLike
    /\ program # <<>>
    /\ StartsWith(output, <<"d", "e", "f", " ">>)

\* An object-like macro without body has been rendered as None, after a
\* macro defined before it.
C14_WitnessNone ==
    /\ pc = "done" /\ meta.family = "macro"
    /\ Len(macros) = 2 /\ macros[2].valid /\ macros[2].body = <<>>
    /\ Str(output) = "A = 1\nE = None\n\ny = 1\n"

-----------------------------------------------------------------------------
(* Numeric literals *)

\* The exponents e or E, an optional sign, digits.
ValidExponents == {"e2", "e+2", "e-2", "E10"}

\* The shapes d+.d+, d+., .d+ and d+e[+-]?d+ of the family, with nothing
\* after the number.
IsIntFrac(m) ==
    m.family = "number" /\ NumberDigits[m.int] # <<>> /\ m.dot /\ NumberFractions[m.frac] # <<>>
        /\ NumberExponents[m.exp] = <<>> /\ NumberSuffixes[m.suffix] = <<>>

IsIntDot(m) ==
    m.family = "number" /\ NumberDigits[m.int] # <<>> /\ m.dot /\ NumberFractions[m.frac] = <<>>
        /\ NumberExponents[m.exp] = <<>> /\ NumberSuffixes[m.suffix] = <<>>

IsDotFrac(m) ==
    m.family = "number" /\ NumberDigits[m.int] = <<>> /\ m.dot /\ NumberFractions[m.frac] # <<>>
        /\ NumberExponents[m.exp] = <<>> /\ NumberSuffixes[m.suffix] = <<>>

IsIntExp(m) ==
    m.family = "number" /\ NumberDigits[m.int] # <<>> /\ ~m.dot
        /\ Str(NumberExponents[m.exp]) \in ValidExponents /\ NumberSuffixes[m.suffix] = <<>>

\* The token sequence is one FloatNumber token with the whole source as its
\* text, then EndOfFile.
OneFloatToken ==
    /\ Len(tokens) = 2
    /\ tokens[1].type = "FloatNumber" /\ tokens[1].value = source
    /\ tokens[2].type = "EndOfFile"

\* The types and the texts of the tokens.
TokenTypes == [i \in 1..Len(tokens) |-> tokens[i].type]

TokenTexts == [i \in 1..Len(tokens) |-> Str(tokens[i].value)]

\* 1.foo is an integer, the operator "." and an identifier.
IntegerDotIdentifier ==
    Str(source) = "1.foo" =>
        /\ TokenTypes = <<"IntegerNumber", "Operator", "Identifier", "EndOfFile">>
        /\ SubSeq(TokenTexts, 1, 3) = <<"1", ".", "foo">>

\* C15: an input of one of the shapes d+.d+, d+., .d+, d+e[+-]?d+ is
\* tokenized as one FloatNumber token with the whole input as its text,
\* followed by EndOfFile only; 1.foo is tokenized as IntegerNumber 1,
\* Operator ".", Identifier foo.
C15_FloatShapes ==
    pc # "lex" /\ meta.family = "number" =>
        /\ IsIntFrac(meta) \/ IsIntDot(meta) \/ IsDotFrac(meta) \/ IsIntExp(meta)
               => OneFloatToken
        /\ IntegerDotIdentifier

\* The same without the shape d+. : what the tokenizer does guarantee.
C15_FloatShapesWithDigitAfterDot ==
    pc # "lex" /\ meta.family = "number" =>
        /\ IsIntFrac(meta) \/ IsDotFrac(meta) \/ IsIntExp(meta) => OneFloatToken
        /\ IntegerDotIdentifier

\* An input d+. is an integer followed by the operator ".".
C15_TrailingDotIsOperator ==
    pc # "lex" /\ IsIntDot(meta) =>
        /\ TokenTypes = <<"IntegerNumber", "Operator", "EndOfFile">>
        /\ TokenTexts[1] \o TokenTexts[2] = Str(source)

\* The number of the family is a mantissa (digits, digits.digits or .digits)
\* followed by e or E and a sign, and no digit after the sign.
SignOnlyExponent(m) ==
    /\ m.family = "number"
    /\ Str(NumberExponents[m.exp]) \in {"e+", "E-"}
    /\ IF m.dot THEN NumberFractions[m.frac] # <<>> ELSE NumberDigits[m.int] # <<>>

\* The mantissa of the number m, as a string.
Mantissa(m) ==
    Str(NumberDigits[m.int] \o (IF m.dot THEN <<".">> \o NumberFractions[m.frac] ELSE <<>>))

\* C24: a numeric literal whose e or E is followed by a sign but no digit,
\* such as 1e+ or 2.5E-, is tokenized as an Error token.
C24_SignOnlyExponentIsError ==
    (pc # "lex" /\ SignOnlyExponent(meta)) => tokens[1].type = "Error"

\* What the lexer does: the number ends before the e, which is tokenized as
\* an identifier (with the letters that follow it), and the sign as an
\* operator; no token is an Error token.
C24_ExponentLeftToNextTokens ==
    (pc # "lex" /\ SignOnlyExponent(meta)) =>
        /\ tokens[1].type = (IF meta.dot THEN "FloatNumber" ELSE "IntegerNumber")
        /\ TokenTexts[1] = Mantissa(meta)
        /\ tokens[2].type = "Identifier"
        /\ tokens[3].type = "Operator"
        /\ \A i \in 1..Len(tokens) : tokens[i].type # "Error"

-----------------------------------------------------------------------------
(* #define directives.  Line k of a source of the macro family is the      *)
(* k-th line of meta.lines, and a macro definition records the line of its *)
(* directive.                                                              *)

LineOf(m, k) == DefineLines[m.lines[k]]

\* The macro definitions stored for the directive of line k.
DefinitionsOfLine(k) == {i \in 1..Len(macros) : macros[i].line = k}

\* The directive of line k has one definition with the parts of the
\* directive as written: its name, its parameters in order, its body.
DefinedAsWritten(m, k) ==
    /\ Cardinality(DefinitionsOfLine(k)) = 1
    /\ \A i \in DefinitionsOfLine(k) :
           /\ macros[i].valid
           /\ macros[i].isFunctionLike = (LineOf(m, k).form = "function")
           /\ macros[i].name = LineOf(m, k).name
           /\ macros[i].parameters = LineOf(m, k).parameters
           /\ macros[i].body = LineOf(m, k).body

\* C16: every well-formed directive #define NAME(p1, ..., pk) body yields one
\* macro definition that is function-like and valid, with the name NAME, the
\* trimmed parameters in order and the trimmed rest of the line as body.
C16_FunctionLikeDefinition ==
    pc # "lex" /\ meta.family = "macro" =>
        \A k \in 1..Len(meta.lines) :
            LineOf(meta, k).form = "function" => DefinedAsWritten(meta, k)

\* A line after which the tokenizer goes on reading the directive on the
\* next line: a directive without body, and an unclosed parameter list.
ReadsNextLine(l) ==
    \/ l.form \in {"object", "function"} /\ l.body = <<>>
    \/ Str(l.text) = "#define G(x"

\* What the tokenizer does guarantee: the same for the directives that have a
\* body, when no line before them is read on into the next one.
C16_FunctionLikeWithBody ==
    pc # "lex" /\ meta.family = "macro" =>
        \A k \in 1..Len(meta.lines) :
            /\ LineOf(meta, k).form = "function" /\ LineOf(meta, k).body # <<>>
            /\ \A j \in 1..(k - 1) : ~ReadsNextLine(LineOf(meta, j))
            => DefinedAsWritten(meta, k)

\* C17: every malformed #define leaves an entry that is not valid in the
\* macro list; none is dropped.
C17_MalformedKeptInvalid ==
    pc # "lex" /\ meta.family = "macro" =>
        \A k \in 1..Len(meta.lines) :
            LineOf(meta, k).form = "malformed" =>
                \E i \in DefinitionsOfLine(k) : ~macros[i].valid

\* What the tokenizer does: the entries that are not valid are those of the
\* directives without a macro name; a directive with a malformed parameter
\* list leaves no entry.
C17_OnlyInvalidNameKept ==
    pc # "lex" /\ meta.family = "macro" =>
        /\ \A i \in 1..Len(macros) :
               ~macros[i].valid => Str(LineOf(meta, macros[i].line).text) = "#define 1 2"
        /\ \A k \in 1..Len(meta.lines) :
               Str(LineOf(meta, k).text) \in {"#define F(x,,y) x", "#define G(x"}
                   => DefinitionsOfLine(k) = {}

\* The tokens of the statement lines of a source of the family, in order.
RECURSIVE StatementTokens(_)
StatementTokens(is) ==
    IF is = <<>> THEN <<>>
    ELSE (IF DefineLines[Head(is)].form = "statement" THEN <<"y", "=", "1", ";">> ELSE <<>>)
         \o StatementTokens(Tail(is))

\* C20: a directive consumes its own line and nothing else: the body of a
\* well-formed #define is the rest of its line (empty for #define NAME
\* followed by a newline), and the tokens of the other lines are in the token
\* sequence unchanged.
C20_DirectiveConsumesItsLine ==
    pc # "lex" /\ meta.family = "macro" =>
        /\ \A k \in 1..Len(meta.lines) :
               LineOf(meta, k).form \in {"object", "function"} =>
                   \E i \in DefinitionsOfLine(k) : macros[i].body = LineOf(meta, k).body
        /\ TokenTexts = StatementTokens(meta.lines) \o <<"">>

\* What the tokenizer does for #define E followed by the line y = 1; : the
\* statement is the body of the macro and no token of it is left.
C20_NextLineIsBody ==
    pc # "lex" /\ meta.family = "macro" /\ Str(source) = "#define E\ny = 1;" =>
        /\ Len(macros) = 1 /\ Str(macros[1].body) = "y = 1;"
        /\ TokenTypes = <<"EndOfFile">>

-----------------------------------------------------------------------------
(* String escaping *)

\* C18: for a string value of ordinary characters and of the characters the
\* supported escapes stand for (newline, tab, carriage return, backslash,
\* single quote, double quote), the escaping of transpileStringLiteralNode
\* followed by unescapeLiteralContent gives the value back.
C18_EscapeRoundTrip == pc = "returned" => res = py_val

\* A value with a backslash before an n and with a newline has made the
\* round trip, and its escaped text is longer than the value.
C18_Witness ==
    /\ pc = "returned"
    /\ \E i \in 1..(Len(py_val) - 1) : py_val[i] = "\\" /\ py_val[i + 1] = "n"
    /\ \E i \in 1..Len(py_val) : py_val[i] = "\n"
    /\ Len(ss_str) > Len(py_val)
    /\ res = py_val

\* The value of a string literal of the family: every piece of its body
\* replaced by the character it stands for.
DecodedOnce(m) == [i \in 1..Len(m.pieces) |-> StringPieces[m.pieces[i]].char]

\* The StringLiteral node of the statement x = "..."; of the family.
ParsedLiteral == program[1].expr.rvalue

\* C19: the value of the StringLiteral node is the body of the source
\* literal with every escape sequence replaced once: "\\n" (an escaped
\* backslash, then n) has the two-character value backslash, n.
C19_DecodedOnce ==
    pc \in {"gen", "done"} /\ meta.family = "string" =>
        /\ ParsedLiteral.kind = "StringLiteral"
        /\ ParsedLiteral.value = DecodedOnce(meta)

\* What the parser does guarantee: the same for the literals without an
\* escaped backslash.
C19_DecodedOnceWithoutBackslash ==
    pc \in {"gen", "done"} /\ meta.family = "string"
        /\ (\A i \in 1..Len(meta.pieces) : StringPieces[meta.pieces[i]].char # "\\")
        => /\ ParsedLiteral.kind = "StringLiteral"
           /\ ParsedLiteral.value = DecodedOnce(meta)

\* What the parser builds for "\\n": the one-character value newline.
C19_DecodedTwice ==
    pc \in {"gen", "done"} /\ meta.family = "string" /\ Str(source) = "x = \"\\\\n\";"
        => ParsedLiteral.value = <<"\n">>

-----------------------------------------------------------------------------
(* Expressions *)

\* The nodes of an expression tree, the tree itself included.
RECURSIVE Subexpressions(_)
RECURSIVE SubexpressionsOfAll(_)
Subexpressions(e) ==
    {e} \cup
    CASE e.kind = "Assignment" -> Subexpressions(e.lvalue) \cup Subexpressions(e.rvalue)
      [] e.kind = "BinaryExpression" -> Subexpressions(e.left) \cup Subexpressions(e.right)
      [] e.kind = "UnaryExpression" -> Subexpressions(e.operand)
      [] e.kind = "ArraySubscript" -> Subexpressions(e.array) \cup Subexpressions(e.index)
      [] e.kind = "FunctionCall" -> SubexpressionsOfAll(e.args)
      [] OTHER -> {}

SubexpressionsOfAll(es) ==
    IF es = <<>> THEN {} ELSE Subexpressions(Head(es)) \cup SubexpressionsOfAll(Tail(es))

\* The expressions of the expression statements of the program.
ProgramExpressions ==
    UNION {Subexpressions(program[i].expr) :
               i \in {j \in 1..Len(program) : program[j].kind = "ExpressionStatement"}}

\* The operator after operand k of the expression m is the assignment.
IsAssignmentAt(m, k) == k <= Len(m.ops) /\ ExprOperators[m.ops[k]].tier = 0

\* The left-hand expression of some = of the expression m is neither an
\* identifier nor an array subscript: it is an operand of another form, or the
\* binary expression of the operands before it.
InvalidTarget(m) ==
    \E k \in 1..Len(m.ops) :
        /\ IsAssignmentAt(m, k)
        /\ \/ ~Operand(m, k).lvalue
           \/ k > 1 /\ ~IsAssignmentAt(m, k - 1)

\* C21: every Assignment node of the tree the parser returns has an Identifier
\* or an ArraySubscript as its lvalue, and a statement with an = after any
\* other left-hand expression is reported as an error and leaves no node.
C21_AssignmentTarget ==
    (pc = "gen" /\ meta.family = "expr") =>
        /\ \A e \in ProgramExpressions :
               e.kind = "Assignment" => e.lvalue.kind \in {"Identifier", "ArraySubscript"}
        /\ InvalidTarget(meta) => errors = 1 /\ program = <<>>

\* An = after a call, a literal, a unary or a binary expression was rejected.
C21_Witness ==
    /\ pc = "gen" /\ meta.family = "expr"
    /\ InvalidTarget(meta)
    /\ errors = 1

\* An assignment to an array subscript was parsed.
C21_WitnessSubscript ==
    /\ pc = "gen" /\ meta.family = "expr"
    /\ \E e \in ProgramExpressions :
           e.kind = "Assignment" /\ e.lvalue.kind = "ArraySubscript"

\* The tree of "l o r" in the grammar of C.
BinaryOf(o, l, r) ==
    IF o.tier = 0 THEN [kind |-> "Assignment", lvalue |-> l, rvalue |-> r]
    ELSE [kind |-> "BinaryExpression", op |-> o.text, left |-> l, right |-> r]

\* In "x o1 y o2 z" the operand y belongs to o1: o1 binds tighter than o2, or
\* as tightly and the tier associates to the left (every tier but assignment).
GroupsLeft(o1, o2) == o1.tier > o2.tier \/ (o1.tier = o2.tier /\ o1.tier # 0)

\* The tree of the expression m in the grammar of C.
ExpectedTree(m) ==
    IF Len(m.ops) = 0 THEN Operand(m, 1).node
    ELSE IF Len(m.ops) = 1
    THEN BinaryOf(ExprOperators[m.ops[1]], Operand(m, 1).node, Operand(m, 2).node)
    ELSE IF GroupsLeft(ExprOperators[m.ops[1]], ExprOperators[m.ops[2]])
    THEN BinaryOf(ExprOperators[m.ops[2]],
                  BinaryOf(ExprOperators[m.ops[1]], Operand(m, 1).node, Operand(m, 2).node),
                  Operand(m, 3).node)
    ELSE BinaryOf(ExprOperators[m.ops[1]], Operand(m, 1).node,
                  BinaryOf(ExprOperators[m.ops[2]], Operand(m, 2).node, Operand(m, 3).node))

\* C22: parseExpression builds the tree of the precedence grammar: binary
\* operators of one tier associate to the left, the tiers bind in the order
\* || < && < == != < relational < additive < multiplicative < prefix < postfix,
\* and assignment associates to the right.
C22_PrecedenceTree ==
    (pc = "gen" /\ meta.family = "expr" /\ ~InvalidTarget(meta)) =>
        /\ errors = 0
        /\ program = <<[kind |-> "ExpressionStatement", expr |-> ExpectedTree(meta)]>>

\* a - b * -c++ was parsed: two tiers, a prefix and a postfix operator.
C22_Witness ==
    /\ pc = "gen" /\ meta.family = "expr"
    /\ Str(source) = "a - b * -c++;"
    /\ program = <<[kind |-> "ExpressionStatement", expr |-> ExpectedTree(meta)]>>
    /\ program[1].expr.right.right.operand.operand = IdentifierOf("c")

-----------------------------------------------------------------------------
(* Declarations *)

\* The statements around the declaration of the family: the program itself,
\* or the body of the construct the declaration is written in.
DeclScope ==
    IF meta.wrap = 1 THEN program
    ELSE IF program # <<>> /\ program[1].kind = DeclWrappers[meta.wrap].kind
    THEN BodyOf(program[1])
    ELSE <<>>

\* The declaration of the family was parsed as the declaration of a variable
\* of the type and the name written.
ParsedAsDeclaration(m) ==
    /\ errors = 0
    /\ DeclScope # <<>>
    /\ DeclScope[1].kind = "VariableDeclaration"
    /\ DeclScope[1].type = DeclTypes[m.type]
    /\ DeclScope[1].name = DeclNames[m.name]

\* C23: a statement that starts with one of the type words int, float, char,
\* bool, string, void followed by an identifier is parsed as a declaration of
\* that type, without a syntax error; string s = "hi"; in particular.
C23_TypeWordsDeclare ==
    (pc = "gen" /\ meta.family = "decl") => ParsedAsDeclaration(meta)

\* What the code does guarantee: the same for every type word but string.
C23_KeywordTypesDeclare ==
    (pc = "gen" /\ meta.family = "decl" /\ Str(DeclTypes[meta.type]) # "string")
        => ParsedAsDeclaration(meta)

\* The word string is not in the keyword table of the lexer: it is an
\* Identifier token, the statement is an expression statement that ends at
\* the name, and the parser reports an error for it.
C23_StringIsIdentifier ==
    (pc = "gen" /\ meta.family = "decl" /\ Str(DeclTypes[meta.type]) = "string") =>
        /\ \E i \in 1..Len(tokens) :
               tokens[i].type = "Identifier" /\ Str(tokens[i].value) = "string"
        /\ errors >= 1
        /\ \A i \in 1..Len(DeclScope) : DeclScope[i].kind # "VariableDeclaration"

-----------------------------------------------------------------------------
(* Counting loops *)

\* The loop m of the counting family counts down: its condition is i > B or
\* i >= B and its update is i--, --i or i = i - N.
CountsDown(m) ==
    /\ m.family = "count"
    /\ Str(CountOperators[m.op]) \in {">", ">="}
    /\ CountUpdates[m.incr].step < 0

\* The range header of the loop m that counts down: the bound, shifted by one
\* step when the comparison is >=, and the negative step.
DescendingHeader(m) ==
    "for i in range(" \o Str(CountStarts[m.start]) \o ", "
        \o (IF Str(CountOperators[m.op]) = ">=" THEN "(" \o Str(CountBounds[m.bound]) \o " - 1)"
            ELSE Str(CountBounds[m.bound]))
        \o (IF CountUpdates[m.incr].step = -1 THEN ", -1" ELSE ", -2")
        \o "):"

\* C25: a for loop with the condition i > B or i >= B and the update i--, --i
\* or i = i - N is rendered as a range loop with a negative step, the bound
\* shifted by one step for >=, and not as a while loop.
C25_DescendingRange ==
    (pc = "done" /\ CountsDown(meta)) =>
        /\ OutputLine(2) = DescendingHeader(meta)
        /\ NoWhileLine

\* What the generator does: the comparisons > and >= give no stop value, and
\* the loop is rendered as a while loop with the condition of the C loop.
C25_DescendingIsWhile ==
    (pc = "done" /\ CountsDown(meta)) =>
        /\ OutputLine(1) = "i = " \o Str(CountStarts[meta.start])
        /\ OutputLine(2) = "while (i " \o Str(CountOperators[meta.op]) \o " "
                               \o Str(CountBounds[meta.bound]) \o "):"
        /\ ~SomeLineStartsWith(<<"f", "o", "r", " ">>)

\* The generated text has the header of a range loop.
HasRangeHeader == StartsWith(Lines(output)[2], <<"f", "o", "r", " ", "i", " ", "i", "n", " ", "r", "a", "n", "g", "e", "(">>)

\* The text between the parentheses of range in that header.
RangeArgumentText ==
    SubSeq(Lines(output)[2], Len(<<"f", "o", "r", " ", "i", " ", "i", "n", " ", "r", "a", "n", "g", "e", "(">>) + 1,
           Len(Lines(output)[2]) - 2)

\* The positions of the commas in it, and the k-th of them; the arguments of
\* the counting loops contain no commas of their own.
RangeCommas == {n \in 1..Len(RangeArgumentText) : RangeArgumentText[n] = ","}

RangeComma(k) == CHOOSE c \in RangeCommas : Cardinality({d \in RangeCommas : d < c}) = k - 1

\* The arguments of range in that header, as expressions.
RangeArguments ==
    [k \in 1..(Cardinality(RangeCommas) + 1) |->
        PyExpr(SubSeq(RangeArgumentText,
                      IF k = 1 THEN 1 ELSE RangeComma(k - 1) + 2,
                      IF k = Cardinality(RangeCommas) + 1 THEN Len(RangeArgumentText)
                      ELSE RangeComma(k) - 1))]

RangeArgument(k) == Eval("py", RangeArguments[k], InitialEnv).val

\* The values of range(v, stop, step) in Python, at most fuel of them.
RECURSIVE RangeValues(_, _, _, _)
RangeValues(v, stop, step, fuel) ==
    IF fuel = 0 \/ (step > 0 /\ v >= stop) \/ (step < 0 /\ v <= stop) THEN <<>>
    ELSE <<v>> \o RangeValues(v + step, stop, step, fuel - 1)

\* The values the loop variable takes in the generated range loop.
GeneratedRange ==
    RangeValues(RangeArgument(1), RangeArgument(2),
                IF Len(RangeArguments) = 3 THEN RangeArgument(3) ELSE 1, MaxIterations)

\* The direction of the update of the loop m agrees with its comparison.
DirectionAgrees(m) ==
    (CountUpdates[m.incr].step > 0) <=> (Str(CountOperators[m.op]) \in {"<", "<="})

\* C29: whenever a range loop is emitted, the values of the loop variable in
\* range(start, stop, step) are the values it takes in the C loop, which ends;
\* in particular no range loop is emitted when the sign of the step disagrees
\* with the direction of the comparison.  The C loop is followed for
\* MaxIterations iterations.
C29_RangeEquivalent ==
    (pc = "done" /\ meta.family = "count" /\ HasRangeHeader) =>
        /\ DirectionAgrees(meta)
        /\ RunFor(program[1]).ended
        /\ RunFor(program[1]).trace = GeneratedRange

\* What the generator does guarantee: the same for the range loops emitted
\* for an update whose direction agrees with the comparison.
C29_EquivalentWhenDirectionAgrees ==
    (pc = "done" /\ meta.family = "count" /\ HasRangeHeader /\ DirectionAgrees(meta)) =>
        /\ RunFor(program[1]).ended
        /\ RunFor(program[1]).trace = GeneratedRange

\* A loop with the condition i < B or i <= B and a negative step is emitted
\* as a range loop all the same; the range is empty when the start is at most
\* the stop value, where the C loop runs.
C29_RangeDespiteDirection ==
    (pc = "done" /\ meta.family = "count"
        /\ Str(CountOperators[meta.op]) \in {"<", "<="} /\ CountUpdates[meta.incr].step < 0) =>
        /\ HasRangeHeader
        /\ Str(source) = "for (i = 0; i < 10; i--) s = s + i;" =>
               /\ OutputLine(2) = "for i in range(0, 10, -1):"
               /\ GeneratedRange = <<>>
               /\ RunFor(program[1]).trace # <<>>

\* for (i = 0; i <= 10; i++) was rendered over the eleven values 0, ..., 10.
C29_WitnessAscending ==
    /\ pc = "done" /\ meta.family = "count" /\ HasRangeHeader /\ DirectionAgrees(meta)
    /\ GeneratedRange = <<0, 1, 2, 3, 4, 5, 6, 7, 8, 9, 10>>
    /\ RunFor(program[1]).trace = GeneratedRange

-----------------------------------------------------------------------------
(* Nesting *)

\* The indentation of the lines of the generated text, in spaces.
OutputIndentation == [n \in 1..Len(Lines(output)) |-> Indentation(Lines(output)[n])]

\* The indentation of lines of the given relative levels in a statement list
\* of the given depth.
IndentationAt(levels, depth) == [n \in 1..Len(levels) |-> 4 * (depth + levels[n])]

\* The depth of the statement of the text m.
NestDepth(m) == NestWrappers[m.outer].depth + NestWrappers[m.inner].depth

\* The indentation the claim gives to the lines of the text m: the header of
\* each construct at the level of the list that contains it, its body one
\* level deeper.
ExpectedIndentation(m) ==
    IndentationAt(NestWrappers[m.outer].levels, 0)
        \o IndentationAt(NestWrappers[m.inner].levels, NestWrappers[m.outer].depth)
        \o IndentationAt(NestStatements[m.stmt].levels, NestDepth(m))
        \o (IF m.tail THEN <<4 * NestDepth(m)>> ELSE <<>>)

\* An if statement is written directly after an else: the two are one chain.
IsElseIf(m) ==
    /\ ~m.braces
    /\ \/ Str(NestWrappers[m.inner].open) = "if (a) y = 0; else "
              /\ Str(NestStatements[m.stmt].text) = "if (b) y = 1; else y = 2;"
       \/ Str(NestWrappers[m.outer].open) = "if (a) y = 0; else "
              /\ \/ Str(NestWrappers[m.inner].open) \in {"if (a) ", "if (a) y = 0; else "}
                 \/ m.inner = 1 /\ Str(NestStatements[m.stmt].text) = "if (b) y = 1; else y = 2;"

\* A function declaration is written inside another construct.
NestedFunction(m) ==
    m.outer # 1 /\ (NestWrappers[m.inner].function \/ NestStatements[m.stmt].function)

\* The texts of the family whose statements all render text.
IsNest(m) == m.family = "nest" /\ ~NestStatements[m.stmt].empty /\ ~IsElseIf(m)

\* C28: every nesting construct (if, while, for, function declaration),
\* wherever it appears, has its header at the level of the statement list that
\* contains it and the lines of its body one level (4 spaces) deeper: a line of
\* a statement nested at depth d is indented by 4 * d spaces.
C28_NestedIndentation ==
    (pc = "done" /\ IsNest(meta)) => OutputIndentation = ExpectedIndentation(meta)

\* What the generator does guarantee: the same when no function declaration
\* is nested in another construct.
C28_IndentationOutsideFunctions ==
    (pc = "done" /\ IsNest(meta) /\ ~NestedFunction(meta))
        => OutputIndentation = ExpectedIndentation(meta)

\* A function declared inside another construct has its header at level 0
\* and its body at level 1, whatever its depth.
C28_FunctionsAtLevelZero ==
    (pc = "done" /\ IsNest(meta) /\ NestStatements[meta.stmt].function /\ meta.outer # 1) =>
        \E n \in 1..(Len(Lines(output)) - 1) :
            /\ Str(Lines(output)[n]) = "def g():"
            /\ Str(Lines(output)[n + 1]) = "    y = 1"

\* A while loop in an else branch in a for loop was rendered at depth two.
C28_WitnessDepthTwo ==
    /\ pc = "done" /\ IsNest(meta) /\ ~NestedFunction(meta)
    /\ Str(source) = "for (i = 0; i < 3; i++) { if (a) y = 0; else { while (b) y = 1; z = 2; } }"
    /\ OutputIndentation = <<0, 0, 4, 8, 4, 8, 12, 8>>

\* Line n of the generated text is a header: it ends in a colon.
IsHeaderLine(n) == Lines(output)[n] # <<>> /\ Last(Lines(output)[n]) = ":"

\* Every header line is immediately followed by a line one level deeper.
EveryHeaderHasBody ==
    \A n \in 1..Len(Lines(output)) :
        IsHeaderLine(n) =>
            /\ n < Len(Lines(output))
            /\ OutputIndentation[n + 1] = OutputIndentation[n] + 4

\* The body of a construct of the text m is a single statement, not a block,
\* that renders no text.
EmptyStatementBody(m) ==
    \/ Str(NestStatements[m.stmt].text) = "while (b) int x;"
    \/ /\ Str(NestStatements[m.stmt].text) = "int x;"
       /\ ~m.braces
       /\ m.outer # 1
       /\ ~NestWrappers[IF m.inner = 1 THEN m.outer ELSE m.inner].function

\* C30: in every output of transpile each header line ending in a colon is
\* immediately followed by at least one line indented one level deeper: a body
\* that generates no text, an empty block or a single statement that renders
\* to nothing, is rendered as pass.
C30_HeadersHaveBodies ==
    (pc = "done" /\ meta.family = "nest") => EveryHeaderHasBody

\* What the generator does guarantee: the same when no body is a single
\* statement that renders no text and no function declaration is nested in
\* another construct; an empty block is rendered as pass.
C30_BlocksHaveBodies ==
    (pc = "done" /\ meta.family = "nest" /\ ~EmptyStatementBody(meta)
        /\ ~NestedFunction(meta)) => EveryHeaderHasBody

\* A declaration without initializer as the body of a while loop: the header
\* is the last line of the text.
C30_DeclarationBodyIsMissing ==
    (pc = "done" /\ meta.family = "nest" /\ ~meta.tail
        /\ Str(NestStatements[meta.stmt].text) = "while (b) int x;") =>
        /\ Str(Unindented(Lines(output)[Len(Lines(output))])) = "while b:"
        /\ ~EveryHeaderHasBody

\* while (x) { } was rendered with pass as its body.
C30_WitnessPass ==
    /\ pc = "done" /\ meta.family = "nest"
    /\ Str(source) = "while (x) { { } }"
    /\ Str(output) = "while x:\n    pass\n"
=============================================================================
